---- MODULE Spec2Model ----
(***************************************************************************)
(* js-collection: MemoryCollection (src/src/memory.ts) and the Transaction *)
(* wrapper with its process-wide registry (src/src/types.ts, lines         *)
(* 62-167).                                                                *)
(*                                                                         *)
(* JavaScript objects have identity: MemoryCollection stores the very      *)
(* objects it is handed and search/getById return those same objects, so   *)
(* the model keeps a heap of objects and the collections hold references   *)
(* into it.  The closures a Transaction pushes onto _rollbackFns capture   *)
(* references too (the `result` arrays and the `collection` constant).     *)
(*                                                                         *)
(* The caller awaits every Transaction method before it starts the next    *)
(* one (spec section 5) and the backend is MemoryCollection, whose methods *)
(* are synchronous: the awaits inside a method resolve in microtasks, no   *)
(* timer callback can run between them, and each method is one atomic      *)
(* step.                                                                   *)
(*                                                                         *)
(* Spec     one Transaction instance at work on one collection, with every *)
(*          mutating operation and every argument shape;                   *)
(* SpecRead Spec together with getById, search and searchOne;              *)
(* SpecFail one transaction over a backend whose calls can reject during   *)
(*          rollback();                                                    *)
(* SpecCol  one collection of one of the three backends (MemoryCollection, *)
(*          FileCollection, SqlCollection of src/dist/index.d.ts), called  *)
(*          directly, with records that carry a nested mapping;            *)
(* SpecReg  the registry: several instances, two transaction ids, two      *)
(*          collections, and just enough collection traffic to fill logs;  *)
(* SpecSel  one Select builder (src/src/select.ts) over a filled source    *)
(*          collection, with its join and projection callbacks;            *)
(* SpecUndo one transaction over a filled collection, at work only while   *)
(*          it is active and only with save of new ids, delete and         *)
(*          deleteById, in runs of up to three logged operations;          *)
(* SpecBind one transaction id that Transaction.get() points at one        *)
(*          collection and then at the other between the operations;       *)
(* SpecRace one transaction whose caller does not await rollback(): the    *)
(*          call is suspended at each `await` of its loop and other        *)
(*          methods of the instance run in between;                        *)
(* SpecPair two transactions on one collection, each at work on the record *)
(*          id that is its own;                                            *)
(* SpecTime one transaction in use while time passes: the 30000 ms of its  *)
(*          timer are TimeoutTicks ticks, end() and rollback() are never   *)
(*          called, and the event loop runs a timer that is due.           *)
(***************************************************************************)
EXTENDS Integers, Sequences, FiniteSets, TLC

VARIABLES heap, store, uuid, txs, map, pending, last, prev, select, frames,
          age

vars == <<heap, store, uuid, txs, map, pending, last, prev, select, frames,
          age>>

(***************************************************************************)
(* Bounds of the model.                                                    *)
(***************************************************************************)
\* objects the callers create (object literals handed to save)
MaxObjs == 2
\* distinct `_id` strings the callers choose themselves
MaxId == 1
\* distinct values of the `name` field
MaxVal == 2
\* calls of v4() (fresh ids handed out)
MaxUuid == 1
\* items of one save(...items) / update(...items) call
MaxItems == 2
\* compensations one transaction holds in _rollbackFns
MaxLog == 2
\* Transaction instances constructed, under Spec and under SpecReg
MaxTx == 1
MaxTxReg == 2
\* distinct transaction ids the callers use
MaxTxId == 2
\* objects created under SpecReg
MaxObjsReg == 1
\* under SpecCol: objects handed to save, calls of v4(), items of one call
MaxObjsCol == 3
MaxUuidCol == 1
MaxItemsCol == 2
MaxObjsUndo == 4
MaxUuidUndo == 2
MaxLogUndo == 3
MaxLogRace == 3
MaxObjsPair == 3
TimeoutTicks == 2

Cols == {"colA", "colB"}

\* `_id` of an item that carries none (undefined / empty string: `!item._id`)
NoId == 0
\* an own property `_id` whose value is undefined ({_id: undefined, ...});
\* as the text of a key it reads 'undefined'
UndefId == -1
\* a field an update item does not name (Partial<V>)
Absent == 0
\* no object / no transaction (undefined)
Undef == 0

Ids == 1..MaxId
Vals == 1..MaxVal
TxIds == 1..MaxTxId
\* the k-th id v4() hands out: distinct from every other id
UuidBase == 100
AllIds == Ids \cup {UuidBase + k : k \in 1..MaxUuid}

(***************************************************************************)
(* Sequence helpers.                                                       *)
(***************************************************************************)
Range(s) == {s[i] : i \in 1..Len(s)}

SeqsUpTo(S, n) == UNION {[1..k -> S] : k \in 0..n}

(***************************************************************************)
(* query(condition) of @heraclius/query, for the conditions used here:     *)
(* undefined (matches everything), {_id: {$in: ids}}, {_id: id},           *)
(* {name: v}.                                                              *)
(***************************************************************************)
CondAll == [kind |-> "all", ids |-> {}, val |-> 0]
CondIdIn(S) == [kind |-> "idIn", ids |-> S, val |-> 0]
CondName(v) == [kind |-> "name", ids |-> {}, val |-> v]

Matches(rec, cond) ==
    CASE cond.kind = "all" -> TRUE
      [] cond.kind = "idIn" -> rec._id \in cond.ids
      [] cond.kind = "name" -> rec.name = cond.val

(***************************************************************************)
(* Records.  Under Spec a record is [_id, name]; the collection            *)
(* specification SpecCol adds a nested mapping field `meta` with the keys  *)
(* a and b: [has, a, b], `has` telling whether the record (or the update   *)
(* item) carries the field at all, Absent marking a key it does not carry. *)
(* `name` stands for every field whose value is replaced as a whole        *)
(* (scalars and arrays).                                                   *)
(***************************************************************************)
NoMeta == [has |-> FALSE, a |-> Absent, b |-> Absent]

\* !item._id
Falsy(id) == id \in {NoId, UndefId}

(***************************************************************************)
(* deepAssign(oldData, item) of @heraclius/js-tools: the scalar fields the *)
(* item names overwrite those of oldData, a nested mapping is merged key   *)
(* by key, in place.                                                       *)
(***************************************************************************)
MergeMeta(old, new) ==
    IF ~new.has THEN old
    ELSE [has |-> TRUE,
          a |-> IF new.a = Absent THEN old.a ELSE new.a,
          b |-> IF new.b = Absent THEN old.b ELSE new.b]

DeepAssign(old, item) ==
    [f \in DOMAIN old |->
        CASE f = "_id" -> item._id
          [] f = "meta" -> MergeMeta(old.meta, item.meta)
          [] OTHER -> IF item[f] = Absent THEN old[f] ELSE item[f]]

(***************************************************************************)
(* Object.assign(data, item): every own property of item replaces the      *)
(* property of data, nested mappings included.                             *)
(***************************************************************************)
ObjectAssign(data, item) ==
    [f \in DOMAIN data |->
        CASE f = "_id" -> item._id
          [] f = "meta" -> IF item.meta.has THEN item.meta ELSE data.meta
          [] OTHER -> IF item[f] = Absent THEN data[f] ELSE item[f]]

(***************************************************************************)
(* JSON.stringify followed by JSON.parse: a property whose value is        *)
(* undefined is not written, so the parsed object does not carry it.       *)
(***************************************************************************)
\* the text: per property, <<value>> when it is written, <<>> when not
Written(v) == IF v = Absent THEN <<>> ELSE <<v>>

JsonStringify(rec) ==
    [_id |-> IF Falsy(rec._id) THEN <<>> ELSE <<rec._id>>,
     name |-> Written(rec.name),
     meta |-> IF rec.meta.has
              THEN <<[a |-> Written(rec.meta.a), b |-> Written(rec.meta.b)]>>
              ELSE <<>>]

Read(w) == IF w = <<>> THEN Absent ELSE w[1]

JsonParse(text) ==
    [_id |-> IF text._id = <<>> THEN NoId ELSE text._id[1],
     name |-> Read(text.name),
     meta |-> IF text.meta = <<>> THEN NoMeta
              ELSE [has |-> TRUE, a |-> Read(text.meta[1].a),
                    b |-> Read(text.meta[1].b)]]

(***************************************************************************)
(* MemoryCollection.  _map is a JavaScript Map: entries <<key, ref>> in    *)
(* insertion order; set() of an existing key keeps its position.           *)
(***************************************************************************)
MapGet(es, key) ==
    IF \E i \in 1..Len(es) : es[i].key = key
    THEN es[CHOOSE i \in 1..Len(es) : es[i].key = key].ref
    ELSE Undef

\* a key that is set again takes the last place
MapSetMovesLast(es, key, ref) ==
    Append(SelectSeq(es, LAMBDA e : e.key /= key), [key |-> key, ref |-> ref])

MapSet(es, key, ref) ==
    IF \E i \in 1..Len(es) : es[i].key = key
    THEN [i \in 1..Len(es) |->
            IF es[i].key = key THEN [key |-> key, ref |-> ref] ELSE es[i]]
    ELSE Append(es, [key |-> key, ref |-> ref])

MapDelete(es, key) == SelectSeq(es, LAMBDA e : e.key /= key)

\* search(condition): the stored objects themselves, in iteration order
MemSearch(es, h, cond) ==
    LET hit == SelectSeq(es, LAMBDA e : Matches(h[e.ref], cond))
    IN  [i \in 1..Len(hit) |-> hit[i].ref]

\* searchOne(condition)
MemSearchOne(es, h, cond) ==
    LET r == MemSearch(es, h, cond)
    IN  IF Len(r) = 0 THEN Undef ELSE r[1]

\* getById(id)
MemGetById(es, id) == MapGet(es, id)

\* save(...items): a state [es, h, u] and the items (references) left to do
RECURSIVE MemSaveLoop(_, _)
MemSaveLoop(st, items) ==
    IF Len(items) = 0 THEN st
    ELSE LET r == Head(items)
             fresh == Falsy(st.h[r]._id)
             u1 == IF fresh THEN st.u + 1 ELSE st.u
             h1 == IF fresh
                   THEN [st.h EXCEPT ![r]._id = UuidBase + u1]
                   ELSE st.h
         IN  MemSaveLoop([es |-> MapSet(st.es, h1[r]._id, r),
                          h |-> h1, u |-> u1],
                         Tail(items))

MemSave(es, h, u, items) ==
    LET st == MemSaveLoop([es |-> es, h |-> h, u |-> u], items)
    IN  [es |-> st.es, h |-> st.h, u |-> st.u, result |-> items]

\* delete(condition)
RECURSIVE MemDeleteLoop(_, _, _)
MemDeleteLoop(es, h, result) ==
    IF Len(result) = 0 THEN es
    ELSE MemDeleteLoop(MapDelete(es, h[Head(result)]._id), h, Tail(result))

MemDelete(es, h, cond) ==
    LET result == MemSearch(es, h, cond)
    IN  [es |-> MemDeleteLoop(es, h, result), result |-> result]

\* deleteById(id)
MemDeleteById(es, id) ==
    IF MapGet(es, id) /= Undef
    THEN [es |-> MapDelete(es, id), ret |-> TRUE]
    ELSE [es |-> es, ret |-> FALSE]

\* a faulty loop: an item whose _id is not stored is passed over and the
\* items after it are merged, the error is raised at the end
RECURSIVE MemUpdateLoopSkips(_, _)
MemUpdateLoopSkips(st, items) ==
    IF Len(items) = 0 THEN st
    ELSE LET item == Head(items)
             oldData == MapGet(st.es, item._id)
             rest == MemUpdateLoopSkips(
                       IF oldData = Undef THEN st
                       ELSE [st EXCEPT
                               !.h = [st.h EXCEPT
                                        ![oldData] = DeepAssign(@, item)]],
                       Tail(items))
         IN  IF oldData = Undef THEN [rest EXCEPT !.threw = TRUE] ELSE rest

\* update(...items): stops at the first item whose _id is not stored
RECURSIVE MemUpdateLoop(_, _)
MemUpdateLoop(st, items) ==
    IF Len(items) = 0 THEN st
    ELSE LET item == Head(items)
             oldData == MapGet(st.es, item._id)
         IN  IF oldData = Undef
             THEN [st EXCEPT !.threw = TRUE]
             ELSE MemUpdateLoop(
                    [es |-> MapSet(st.es, item._id, oldData),
                     h |-> [st.h EXCEPT ![oldData] = DeepAssign(@, item)],
                     threw |-> FALSE],
                    Tail(items))

MemUpdate(es, h, items) ==
    MemUpdateLoop([es |-> es, h |-> h, threw |-> FALSE], items)

(***************************************************************************)
(* The backends that keep copies: rows <<key, text>> in insertion order.   *)
(* A lookup answers with a sequence: <<>> for undefined, <<record>> for a  *)
(* freshly parsed record.                                                  *)
(***************************************************************************)
RowHas(es, key) == \E i \in 1..Len(es) : es[i].key = key

RowGet(es, key) ==
    LET hit == SelectSeq(es, LAMBDA e : e.key = key)
    IN  [i \in 1..Len(hit) |-> JsonParse(hit[i].text)]

RowAll(es) == [i \in 1..Len(es) |-> JsonParse(es[i].text)]

RowPut(es, key, text) ==
    IF RowHas(es, key)
    THEN [i \in 1..Len(es) |->
            IF es[i].key = key THEN [key |-> key, text |-> text] ELSE es[i]]
    ELSE Append(es, [key |-> key, text |-> text])

RowDel(es, key) == SelectSeq(es, LAMBDA e : e.key /= key)

FilterSeq(recs, cond) == SelectSeq(recs, LAMBDA r : Matches(r, cond))

\* the outcome of a collection call: the rows (or map entries), the heap, the
\* v4() counter, the records it returned, the boolean it returned, and the
\* error it threw ("" for none)
Outcome(es, h, u, result, ok, err) ==
    [es |-> es, h |-> h, u |-> u, result |-> result, ok |-> ok, err |-> err]

(***************************************************************************)
(* FileCollection: a Keyv store; set() writes JSON text, get() parses it.  *)
(***************************************************************************)
\* save(...items): a state [es, u, result]
RECURSIVE FileSaveLoop(_, _)
FileSaveLoop(st, items) ==
    IF Len(items) = 0 THEN st
    ELSE LET fresh == Falsy(Head(items)._id)
             u1 == IF fresh THEN st.u + 1 ELSE st.u
             item == IF fresh THEN [Head(items) EXCEPT !._id = UuidBase + u1]
                     ELSE Head(items)
         IN  FileSaveLoop([es |-> RowPut(st.es, item._id, JsonStringify(item)),
                           u |-> u1, result |-> Append(st.result, item)],
                          Tail(items))

FileSave(es, h, u, items) ==
    LET st == FileSaveLoop([es |-> es, u |-> u, result |-> <<>>], items)
    IN  Outcome(st.es, h, st.u, st.result, TRUE, "")

\* update(...items)
RECURSIVE FileUpdateLoop(_, _)
FileUpdateLoop(st, items) ==
    IF Len(items) = 0 THEN st
    ELSE LET item == Head(items)
             oldData == RowGet(st.es, item._id)
         IN  IF oldData = <<>>
             THEN [st EXCEPT !.err = "Not found item"]
             ELSE FileUpdateLoop(
                    [st EXCEPT !.es = RowPut(@, item._id,
                         JsonStringify(DeepAssign(oldData[1], item)))],
                    Tail(items))

FileUpdate(es, h, u, items) ==
    LET st == FileUpdateLoop([es |-> es, err |-> ""], items)
    IN  Outcome(st.es, h, u, <<>>, TRUE, st.err)

FileSearch(es, cond) == FilterSeq(RowAll(es), cond)

\* deleteById(id): what Keyv's delete answers
FileDeleteById(es, h, u, id) ==
    Outcome(RowDel(es, id), h, u, <<>>, RowHas(es, id), "")

RECURSIVE FileDeleteLoop(_, _)
FileDeleteLoop(es, result) ==
    IF Len(result) = 0 THEN es
    ELSE FileDeleteLoop(RowDel(es, Head(result)._id), Tail(result))

FileDelete(es, h, u, cond) ==
    LET result == FileSearch(es, cond)
    IN  Outcome(FileDeleteLoop(es, result), h, u, result, TRUE, "")

(***************************************************************************)
(* SqlCollection: a table (id TEXT PRIMARY KEY, data TEXT).                *)
(***************************************************************************)
\* `${id}` inside a statement: undefined reads 'undefined'
IdText(id) == IF Falsy(id) THEN UndefId ELSE id

\* getById(id): select * ... where id = '${id}', parsed
SqlGetById(es, id) ==
    LET result == RowGet(es, IdText(id))
    IN  IF result = <<>> THEN <<>> ELSE <<result[1]>>

SqlSearch(es, cond) == FilterSeq(RowAll(es), cond)

\* Object.assign({_id: v4()}, item): an own `_id` of the item, undefined
\* included, replaces the fresh one
AssignOverFreshId(fresh, item) ==
    IF item._id = NoId THEN [item EXCEPT !._id = fresh] ELSE item

\* save(...items): a state [es, u, result, err]
RECURSIVE SqlSaveLoop(_, _)
SqlSaveLoop(st, items) ==
    IF Len(items) = 0 THEN st
    ELSE LET item == Head(items)
             hasId == ~Falsy(item._id)
             u1 == IF hasId THEN st.u ELSE st.u + 1
             data == IF hasId THEN item
                     ELSE AssignOverFreshId(UuidBase + u1, item)
             insert == IF hasId THEN SqlGetById(st.es, item._id) = <<>>
                       ELSE TRUE
             s1 == [st EXCEPT !.u = u1, !.result = Append(@, data)]
         IN  IF insert /\ RowHas(st.es, IdText(data._id))
             THEN [s1 EXCEPT !.err = "UNIQUE constraint failed"]
             ELSE SqlSaveLoop(
                    [s1 EXCEPT !.es = RowPut(@, IdText(data._id),
                                             JsonStringify(data))],
                    Tail(items))

SqlSave(es, h, u, items) ==
    LET st == SqlSaveLoop([es |-> es, u |-> u, result |-> <<>>, err |-> ""],
                          items)
    IN  Outcome(st.es, h, st.u, st.result, TRUE, st.err)

\* update(...items)
RECURSIVE SqlUpdateLoop(_, _)
SqlUpdateLoop(st, items) ==
    IF Len(items) = 0 THEN st
    ELSE LET item == Head(items)
             data == SqlGetById(st.es, item._id)
         IN  IF Falsy(item._id) THEN [st EXCEPT !.err = "_id is required"]
             ELSE IF data = <<>>
             THEN [st EXCEPT !.err = "TypeError"]
             ELSE SqlUpdateLoop(
                    [st EXCEPT !.es = RowPut(@, item._id,
                         JsonStringify(ObjectAssign(data[1], item)))],
                    Tail(items))

SqlUpdate(es, h, u, items) ==
    LET st == SqlUpdateLoop([es |-> es, err |-> ""], items)
    IN  Outcome(st.es, h, u, <<>>, TRUE, st.err)

\* a faulty deleteById: it looks for the row after it has deleted it
SqlDeleteByIdLooksLate(es, h, u, id) ==
    Outcome(RowDel(es, IdText(id)), h, u, <<>>,
            SqlGetById(RowDel(es, IdText(id)), id) /= <<>>, "")

\* deleteById(id)
SqlDeleteById(es, h, u, id) ==
    LET exist == SqlGetById(es, id) /= <<>>
    IN  Outcome(RowDel(es, IdText(id)), h, u, <<>>, exist, "")

RECURSIVE SqlDeleteLoop(_, _)
SqlDeleteLoop(es, result) ==
    IF Len(result) = 0 THEN es
    ELSE SqlDeleteLoop(RowDel(es, IdText(Head(result)._id)), Tail(result))

SqlDelete(es, h, u, cond) ==
    LET result == SqlSearch(es, cond)
    IN  Outcome(SqlDeleteLoop(es, result), h, u, result, TRUE, "")

(***************************************************************************)
(* MemoryCollection behind the same outcome: the caller's object literals  *)
(* go onto the heap, the records returned are read off it.                 *)
(***************************************************************************)
Deref(h, refs) == [i \in 1..Len(refs) |-> h[refs[i]]]

MemoryOutcomeSave(es, h, u, items) ==
    LET r == MemSave(es, h \o items, u,
                     [i \in 1..Len(items) |-> Len(h) + i])
    IN  Outcome(r.es, r.h, r.u, Deref(r.h, r.result), TRUE, "")

MemoryOutcomeUpdate(es, h, u, items) ==
    LET r == MemUpdate(es, h, items)
    IN  Outcome(r.es, r.h, u, <<>>, TRUE,
                IF r.threw THEN "Not found item" ELSE "")

MemoryOutcomeDelete(es, h, u, cond) ==
    LET r == MemDelete(es, h, cond)
    IN  Outcome(r.es, h, u, Deref(h, r.result), TRUE, "")

MemoryOutcomeDeleteById(es, h, u, id) ==
    LET r == MemDeleteById(es, id)
    IN  Outcome(r.es, h, u, <<>>, r.ret, "")

(***************************************************************************)
(* The three backends behind ICollection.                                  *)
(***************************************************************************)
Backends == {"memory", "file", "sql"}

BackendSave(b, es, h, u, items) ==
    CASE b = "memory" -> MemoryOutcomeSave(es, h, u, items)
      [] b = "file" -> FileSave(es, h, u, items)
      [] b = "sql" -> SqlSave(es, h, u, items)

BackendUpdate(b, es, h, u, items) ==
    CASE b = "memory" -> MemoryOutcomeUpdate(es, h, u, items)
      [] b = "file" -> FileUpdate(es, h, u, items)
      [] b = "sql" -> SqlUpdate(es, h, u, items)

BackendDelete(b, es, h, u, cond) ==
    CASE b = "memory" -> MemoryOutcomeDelete(es, h, u, cond)
      [] b = "file" -> FileDelete(es, h, u, cond)
      [] b = "sql" -> SqlDelete(es, h, u, cond)

BackendDeleteById(b, es, h, u, id) ==
    CASE b = "memory" -> MemoryOutcomeDeleteById(es, h, u, id)
      [] b = "file" -> FileDeleteById(es, h, u, id)
      [] b = "sql" -> SqlDeleteById(es, h, u, id)

\* getById(id): <<>> for undefined, <<record>> otherwise
BackendGetById(b, es, h, id) ==
    CASE b = "memory" ->
           IF MapGet(es, id) = Undef THEN <<>> ELSE <<h[MapGet(es, id)]>>
      [] b = "file" -> RowGet(es, id)
      [] b = "sql" -> SqlGetById(es, id)

\* search(): every record of the collection
BackendSearchAll(b, es, h) ==
    CASE b = "memory" -> Deref(h, MemSearch(es, h, CondAll))
      [] b = "file" -> FileSearch(es, CondAll)
      [] b = "sql" -> SqlSearch(es, CondAll)

(***************************************************************************)
(* Transaction.  An instance is [id, collection, rollbackFns, begin,       *)
(* handler]; `handler` is the truthiness of _timeoutHandler and            *)
(* pending[t] counts the setTimeout callbacks of instance t that the event *)
(* loop still holds.  A compensation closure is its kind, the collection   *)
(* constant it captured and the `result` (or `data`) objects it captured.  *)
(***************************************************************************)
\* a faulty compensation: only the first captured object is saved again
CompSaveFirst(c, refs) ==
    [kind |-> "save", col |-> c, refs |-> SubSeq(refs, 1, 1)]

CompSave(c, refs) == [kind |-> "save", col |-> c, refs |-> refs]

\* a faulty closure: it is bound to the other collection
CompDeleteElsewhere(c, refs) ==
    [kind |-> "delete", col |-> CHOOSE d \in Cols : d /= c, refs |-> refs]

CompDelete(c, refs) == [kind |-> "delete", col |-> c, refs |-> refs]

\* a faulty compensation: a re-save puts the collection back to the saved
\* objects alone
RunCompReplaces(fn, st) ==
    IF fn.kind = "save"
    THEN LET r == MemSave(<<>>, st.h, st.u, fn.refs)
         IN  [st EXCEPT !.store[fn.col] = r.es, !.h = r.h, !.u = r.u]
    ELSE LET r == MemDelete(st.store[fn.col], st.h,
                            CondIdIn({st.h[x]._id : x \in Range(fn.refs)}))
         IN  [st EXCEPT !.store[fn.col] = r.es]

\* () => collection.save(...result)   and
\* () => collection.delete({_id: {$in: result.map((item) => item._id)}})
RunComp(fn, st) ==
    IF fn.kind = "save"
    THEN LET r == MemSave(st.store[fn.col], st.h, st.u, fn.refs)
         IN  [st EXCEPT !.store[fn.col] = r.es, !.h = r.h, !.u = r.u]
    ELSE LET r == MemDelete(st.store[fn.col], st.h,
                            CondIdIn({st.h[x]._id : x \in Range(fn.refs)}))
         IN  [st EXCEPT !.store[fn.col] = r.es]

\* a faulty loop: oldest compensation first
RECURSIVE RollbackLoopForward(_, _, _)
RollbackLoopForward(i, fns, st) ==
    IF i < 1 THEN st
    ELSE LET s1 == RollbackLoopForward(i - 1, fns, st)
         IN  [RunComp(fns[i], s1) EXCEPT !.ran = Append(@, i)]

\* for (let i = fns.length - 1; i >= 0; i--) await fns[i]()
\* (indices are 1-based here); st.ran lists the indices run, in order
RECURSIVE RollbackLoop(_, _, _)
RollbackLoop(i, fns, st) ==
    IF i < 1 THEN st
    ELSE RollbackLoop(i - 1, fns,
                      [RunComp(fns[i], st) EXCEPT !.ran = Append(@, i)])

\* a compensation whose backend call rejects after it has dealt with the
\* first j of its objects (save stores item by item, delete removes match by
\* match)
RunCompPartial(fn, st, j) ==
    IF fn.kind = "save"
    THEN RunComp([fn EXCEPT !.refs = SubSeq(@, 1, j)], st)
    ELSE LET result == MemSearch(st.store[fn.col], st.h,
                           CondIdIn({st.h[x]._id : x \in Range(fn.refs)}))
         IN  [st EXCEPT !.store[fn.col] =
                  MemDeleteLoop(@, st.h,
                      SubSeq(result, 1,
                             IF j < Len(result) THEN j ELSE Len(result)))]

\* a faulty loop: the error is swallowed and the older compensations run
AfterThrowContinues(k) == k - 1

\* the index the loop of rollback() goes on from once fns[k]() has thrown:
\* none, the error leaves the loop and the method
AfterThrow(k) == 0

\* a faulty rollback(): the log is left as it is
KeepLog(tx) == tx

\* this._rollbackFns.length = 0
ClearLog(tx) == [tx EXCEPT !.rollbackFns = <<>>]

\* a faulty loop: it starts below the newest compensation
RollbackStartSkipsNewest(fns) == Len(fns) - 1

\* the index rollback() starts its loop at
RollbackStart(fns) == Len(fns)

\* a faulty begin(): it arms a timer whether or not one is armed
BeginAlwaysArms(tx) == TRUE

\* begin(): `if (this._timeoutHandler) return`
BeginArms(tx) == ~tx.handler

TxBegin(tx) ==
    IF BeginArms(tx) THEN [tx EXCEPT !.begin = TRUE, !.handler = TRUE] ELSE tx

\* a faulty end(): the timer is cancelled, the instance stays active
TxEndStaysActive(tx) == [tx EXCEPT !.handler = FALSE]

\* a faulty end(): it also empties the log
TxEndDiscardsLog(tx) ==
    [tx EXCEPT !.begin = FALSE, !.handler = FALSE, !.rollbackFns = <<>>]

\* end() on an instance record
TxEnd(tx) == [tx EXCEPT !.begin = FALSE, !.handler = FALSE]

\* a faulty clearTimeout: the timer stays with the event loop
ClearTimeoutLeaves(tx, n) == n

\* clearTimeout(this._timeoutHandler): the timer the handle names, if it is
\* still pending, is cancelled
ClearTimeout(tx, n) == IF tx.handler /\ n > 0 THEN n - 1 ELSE n

\* a faulty end(): the registry keeps the entry
MapKept(m, id) == m

\* the registry after `delete map[this.id]`
MapWithout(m, id) == [m EXCEPT ![id] = Undef]

\* constructor(id, collection): fields, then this.begin()
\* a faulty constructor: the timer is armed, the instance not marked active
NewTxUnflagged(id, c) ==
    [id |-> id, collection |-> c, rollbackFns |-> <<>>, begin |-> FALSE,
     handler |-> TRUE]

NewTx(id, c) ==
    TxBegin([id |-> id, collection |-> c, rollbackFns |-> <<>>,
             begin |-> FALSE, handler |-> FALSE])

\* a faulty guard: `_begin` is not looked at
LogsWhenEnded(tx, result) == Len(result) > 0

\* what a mutating method appends: `if (result.length && this._begin) push`
LogsResult(tx, result) == Len(result) > 0 /\ tx.begin

\* update: the push comes after `await this.collection.update(...items)`, so
\* an update that threw has left the method before it
UpdateLogsAnyway(tx, result, threw) == LogsResult(tx, result)

UpdateLogs(tx, result, threw) == ~threw /\ LogsResult(tx, result)

\* deleteById: `if (this._begin) push`
LogsData(tx) == tx.begin

\* the value deleteById returns when getById found nothing
MissingIdResult == TRUE

(***************************************************************************)
(* History of the run: `last` is the step just taken together with the     *)
(* state it started from, `prev` a summary of the step before it.          *)
(***************************************************************************)
\* the records of a collection, each with the key it is stored under
ById(es, h) == {<<es[i].key, h[es[i].ref]>> : i \in 1..Len(es)}

\* the record set of a collection
RecordSet(es, h) == {h[es[i].ref] : i \in 1..Len(es)}

State == [heap |-> heap, store |-> store, uuid |-> uuid, txs |-> txs,
          map |-> map, pending |-> pending]

InitState == [heap |-> <<>>, store |-> [c \in Cols |-> <<>>], uuid |-> 0,
              txs |-> <<>>, map |-> [i \in TxIds |-> Undef],
              pending |-> <<>>]

NoStep == [op |-> "init", tx |-> Undef, col |-> "", arg |-> 0,
           pre |-> InitState, ran |-> <<>>, ret |-> TRUE, threw |-> FALSE,
           ids |-> {}]

\* op: the method; tx: the instance it ran on; col: the collection it worked
\* on; arg: its argument (an id, a condition, or the items of update);
\* ran: the log indices rollback() ran, in order;
\* ret: the boolean it returned; threw: it ended in an error; ids: the `_id`s
\* of its items
Step(op, t, c, arg, ran, ret, threw, ids) ==
    [op |-> op, tx |-> t, col |-> c, arg |-> arg, pre |-> State, ran |-> ran,
     ret |-> ret, threw |-> threw, ids |-> ids]

Existed(l) == l.tx /= Undef /\ l.tx <= Len(l.pre.txs)

\* what `prev` keeps of a step: the method, the instance, whether the
\* instance was active and how long its log was when the step started, the
\* ids of its items and the records of its collection when it started
Summary(l) ==
    [op |-> l.op, tx |-> l.tx, threw |-> l.threw, ids |-> l.ids,
     active |-> Existed(l) /\ l.pre.txs[l.tx].begin,
     logLen |-> IF Existed(l) THEN Len(l.pre.txs[l.tx].rollbackFns) ELSE 0,
     byId |-> IF l.col = "" THEN {}
              ELSE ById(l.pre.store[l.col], l.pre.heap)]

NoPrev == Summary(NoStep)

\* `prev` is kept for a rollback() that directly follows another method of
\* the same instance (or its timer), the sequences the claims speak of
Chained(step) == step.op = "rollback" /\ last.tx = step.tx

\* no Select builder before Select.from() is called
NoSelect == [made |-> FALSE]

\* no call of rollback() is suspended at an await
NoFrames == {}

\* collections and transactions know nothing of a Select builder, and a
\* method that runs while a rollback() is suspended does not reach into its
\* frame: both are left alone
\* a faulty transaction: every mutating method arms the timer anew
ArmsOnUse(step) ==
    \/ step.op = "new"
    \/ step.op = "get" /\ step.tx > Len(txs)
    \/ step.op = "begin" /\ BeginArms(txs[step.tx])
    \/ step.op \in {"save", "update", "delete", "deleteById"}
          /\ step.tx /= Undef /\ txs[step.tx].handler

\* the step calls setTimeout: the constructor (by `new` or by a get() that
\* finds no instance) and a begin() that finds no handler; no other method
\* of the class names setTimeout or clearTimeout but end()
Arms(step) ==
    \/ step.op = "new"
    \/ step.op = "get" /\ step.tx > Len(txs)
    \/ step.op = "begin" /\ BeginArms(txs[step.tx])

\* age[t]: the time that has passed since the timer of instance t was
\* armed, in ticks; a timer that is armed starts at 0
AgeAfter(step) ==
    IF ~Arms(step) THEN age
    ELSE IF step.tx > Len(age) THEN Append(age, 0)
    ELSE [age EXCEPT ![step.tx] = 0]

Record(step) ==
    /\ last' = step
    /\ prev' = IF Chained(step) THEN Summary(last) ELSE NoPrev
    /\ select' = select
    /\ frames' = frames
    /\ age' = AgeAfter(step)

Init ==
    /\ heap = InitState.heap
    /\ store = InitState.store
    /\ uuid = InitState.uuid
    /\ txs = InitState.txs
    /\ map = InitState.map
    /\ pending = InitState.pending
    /\ last = NoStep
    /\ prev = NoPrev
    /\ select = NoSelect
    /\ frames = NoFrames
    /\ age = <<>>

Txs == 1..Len(txs)

ItemIds(items) == {items[i]._id : i \in 1..Len(items)}

\* the items a failed update(...items) got to: those up to the first one
\* whose `_id` the collection does not hold, that one included
Reached(es, items) ==
    LET k == CHOOSE i \in 1..Len(items) :
                 /\ MapGet(es, items[i]._id) = Undef
                 /\ \A j \in 1..(i - 1) : MapGet(es, items[j]._id) /= Undef
    IN  SubSeq(items, 1, k)

\* references of the objects the caller creates for `items`
NewRefs(items) == [i \in 1..Len(items) |-> Len(heap) + i]

(***************************************************************************)
(* The application talks to a backend directly: collection.save(...items)  *)
(***************************************************************************)
ColSave(c, items) ==
    /\ LET r == MemSave(store[c], heap \o items, uuid, NewRefs(items))
       IN  /\ heap' = r.h
           /\ store' = [store EXCEPT ![c] = r.es]
           /\ uuid' = r.u
           /\ Record(Step("col.save", Undef, c, 0, <<>>, TRUE, FALSE,
                          {r.h[x]._id : x \in Range(r.result)}))
    /\ UNCHANGED <<txs, map, pending>>

\* a call on a backend: the step records the argument, and as `ret` what the
\* call returned or threw
Returned(o) == [result |-> o.result, ok |-> o.ok, err |-> o.err]

Apply(op, b, arg, o) ==
    /\ store' = [store EXCEPT ![b] = o.es]
    /\ heap' = o.h
    /\ uuid' = o.u
    /\ Record(Step(op, Undef, b, arg, <<>>, Returned(o), o.err /= "", {}))
    /\ UNCHANGED <<txs, map, pending>>

BSave(b, items) ==
    Apply("save", b, items, BackendSave(b, store[b], heap, uuid, items))

BUpdate(b, items) ==
    Apply("update", b, items, BackendUpdate(b, store[b], heap, uuid, items))

BDelete(b, cond) ==
    Apply("delete", b, cond, BackendDelete(b, store[b], heap, uuid, cond))

BDeleteById(b, id) ==
    Apply("deleteById", b, id,
          BackendDeleteById(b, store[b], heap, uuid, id))

(***************************************************************************)
(* Transaction                                                             *)
(***************************************************************************)
\* a faulty get: the registry is not consulted
GetAlwaysCreates(m, id) == TRUE

\* Transaction.get(id, collection): whether it constructs an instance
GetCreates(m, id) == m[id] = Undef

TxGet(id, c) ==
    /\ LET fresh == GetCreates(map, id)
           t == IF fresh THEN Len(txs) + 1 ELSE map[id]
           txs1 == IF fresh THEN Append(txs, NewTx(id, c)) ELSE txs
       IN  /\ txs' = [txs1 EXCEPT ![t].collection = c]
           /\ map' = [map EXCEPT ![id] = t]
           /\ pending' = IF fresh THEN Append(pending, 1) ELSE pending
           /\ Record(Step("get", t, c, id, <<>>, TRUE, FALSE, {}))
    /\ UNCHANGED <<heap, store, uuid>>

\* new Transaction(id, collection)
TxNew(id, c) ==
    /\ txs' = Append(txs, NewTx(id, c))
    /\ pending' = Append(pending, 1)
    /\ Record(Step("new", Len(txs) + 1, c, id, <<>>, TRUE, FALSE, {}))
    /\ UNCHANGED <<heap, store, uuid, map>>

\* begin()
Begin(t) ==
    /\ txs' = [txs EXCEPT ![t] = TxBegin(@)]
    /\ pending' = [pending EXCEPT ![t] = IF BeginArms(txs[t]) THEN @ + 1 ELSE @]
    /\ Record(Step("begin", t, "", 0, <<>>, TRUE, FALSE, {}))
    /\ UNCHANGED <<heap, store, uuid, map>>

\* end()
End(t) ==
    /\ txs' = [txs EXCEPT ![t] = TxEnd(@)]
    /\ map' = MapWithout(map, txs[t].id)
    /\ pending' = [pending EXCEPT ![t] = ClearTimeout(txs[t], @)]
    /\ Record(Step("end", t, "", 0, <<>>, TRUE, FALSE, {}))
    /\ UNCHANGED <<heap, store, uuid>>

\* the setTimeout callback of begin(): this.end(), then console.warn
TimerFire(t) ==
    /\ pending[t] > 0
    /\ txs' = [txs EXCEPT ![t] = TxEnd(@)]
    /\ map' = MapWithout(map, txs[t].id)
    /\ pending' = [pending EXCEPT ![t] = @ - 1]
    /\ Record(Step("timer", t, txs[t].collection, 0, <<>>, TRUE, FALSE, {}))
    /\ UNCHANGED <<heap, store, uuid>>

\* rollback()
Rollback(t) ==
    LET fns == txs[t].rollbackFns
        st == RollbackLoop(RollbackStart(fns), fns,
                           [store |-> store, h |-> heap, u |-> uuid,
                            ran |-> <<>>])
    IN  /\ heap' = st.h
        /\ store' = st.store
        /\ uuid' = st.u
        /\ txs' = [txs EXCEPT ![t] = TxEnd(ClearLog(@))]
        /\ map' = MapWithout(map, txs[t].id)
        /\ pending' = [pending EXCEPT ![t] = ClearTimeout(txs[t], @)]
        /\ Record(Step("rollback", t, txs[t].collection, 0, st.ran, TRUE,
                       FALSE, {}))

\* a faulty rollback(): the compensations that ran are taken off the log
LogAfterThrowPopped(fns, k) == SubSeq(fns, 1, k)

\* the log once fns[k]() has thrown: `this._rollbackFns.length = 0` is not
\* reached and nothing else writes the log
LogAfterThrow(fns, k) == fns

\* rollback() when the call of compensation k rejects after j objects: the
\* compensations newer than k have run, `length = 0` and end() are not
\* reached
RollbackThrows(t, k, j) ==
    LET fns == txs[t].rollbackFns
        n == Len(fns)
        s1 == RollbackLoop(n - k, SubSeq(fns, k + 1, n),
                           [store |-> store, h |-> heap, u |-> uuid,
                            ran |-> <<>>])
        s2 == [RunCompPartial(fns[k], s1, j) EXCEPT
                  !.ran = [i \in 1..Len(s1.ran) |-> s1.ran[i] + k] \o <<k>>]
        s3 == RollbackLoop(AfterThrow(k), fns, s2)
    IN  /\ heap' = s3.h
        /\ store' = s3.store
        /\ uuid' = s3.u
        /\ txs' = [txs EXCEPT ![t].rollbackFns = LogAfterThrow(@, k)]
        /\ Record(Step("rollback", t, txs[t].collection, k, s3.ran, TRUE,
                       TRUE, {}))
        /\ UNCHANGED <<map, pending>>

\* save(...items)
TxSave(t, items) ==
    /\ LET c == txs[t].collection
           r == MemSave(store[c], heap \o items, uuid, NewRefs(items))
       IN  /\ heap' = r.h
           /\ store' = [store EXCEPT ![c] = r.es]
           /\ uuid' = r.u
           /\ txs' = IF LogsResult(txs[t], r.result)
                     THEN [txs EXCEPT ![t].rollbackFns =
                                         Append(@, CompDelete(c, r.result))]
                     ELSE txs
           /\ Record(Step("save", t, c, 0, <<>>, TRUE, FALSE,
                          {r.h[x]._id : x \in Range(r.result)}))
    /\ UNCHANGED <<map, pending>>

\* update(...items)
TxUpdate(t, items) ==
    /\ LET c == txs[t].collection
           result == MemSearch(store[c], heap, CondIdIn(ItemIds(items)))
           r == MemUpdate(store[c], heap, items)
       IN  /\ heap' = r.h
           /\ store' = [store EXCEPT ![c] = r.es]
           /\ txs' = IF UpdateLogs(txs[t], result, r.threw)
                     THEN [txs EXCEPT ![t].rollbackFns =
                                         Append(@, CompSave(c, result))]
                     ELSE txs
           /\ Record(Step("update", t, c,
                          IF r.threw THEN Reached(store[c], items) ELSE 0,
                          <<>>, TRUE, r.threw, ItemIds(items)))
    /\ UNCHANGED <<uuid, map, pending>>

\* delete(condition)
TxDelete(t, cond) ==
    /\ LET c == txs[t].collection
           r == MemDelete(store[c], heap, cond)
       IN  /\ store' = [store EXCEPT ![c] = r.es]
           /\ txs' = IF LogsResult(txs[t], r.result)
                     THEN [txs EXCEPT ![t].rollbackFns =
                                         Append(@, CompSave(c, r.result))]
                     ELSE txs
           /\ Record(Step("delete", t, c, 0, <<>>, TRUE, FALSE,
                          {heap[x]._id : x \in Range(r.result)}))
    /\ UNCHANGED <<heap, uuid, map, pending>>

\* deleteById(id)
TxDeleteById(t, id) ==
    /\ LET c == txs[t].collection
           data == MemGetById(store[c], id)
           r == MemDeleteById(store[c], id)
       IN  IF data /= Undef
           THEN /\ txs' = IF LogsData(txs[t])
                          THEN [txs EXCEPT ![t].rollbackFns =
                                              Append(@, CompSave(c, <<data>>))]
                          ELSE txs
                /\ store' = [store EXCEPT ![c] = r.es]
                /\ Record(Step("deleteById", t, c, id, <<>>, r.ret, FALSE,
                               {id}))
           ELSE /\ UNCHANGED <<txs, store>>
                /\ Record(Step("deleteById", t, c, id, <<>>, MissingIdResult,
                               FALSE, {}))
    /\ UNCHANGED <<heap, uuid, map, pending>>

\* getById(id), search(condition), searchOne(condition): the call is handed
\* to the collection and its result handed back
TxGetById(t, id) ==
    /\ Record(Step("getById", t, txs[t].collection, id, <<>>, TRUE, FALSE,
                   {id}))
    /\ UNCHANGED <<heap, store, uuid, txs, map, pending>>

TxSearch(t, cond) ==
    /\ LET c == txs[t].collection
           result == MemSearch(store[c], heap, cond)
       IN  Record(Step("search", t, c, cond, <<>>, TRUE, FALSE,
                       {heap[x]._id : x \in Range(result)}))
    /\ UNCHANGED <<heap, store, uuid, txs, map, pending>>

TxSearchOne(t, cond) ==
    /\ LET c == txs[t].collection
           r == MemSearchOne(store[c], heap, cond)
       IN  Record(Step("searchOne", t, c, cond, <<>>, TRUE, FALSE,
                       IF r = Undef THEN {} ELSE {heap[r]._id}))
    /\ UNCHANGED <<heap, store, uuid, txs, map, pending>>

(***************************************************************************)
(* Inputs and the bounds on them.                                          *)
(***************************************************************************)
SaveItem == [_id : Ids \cup {NoId}, name : Vals]
UpdateItem == [_id : AllIds, name : Vals \cup {Absent}]
Conds == {CondAll} \cup {CondName(v) : v \in Vals}
                   \cup {CondIdIn({i}) : i \in AllIds}

\* the conditions handed to search and searchOne
ReadConds == {CondAll, CondName(1)}

NoIdCount(items) == Cardinality({i \in 1..Len(items) : items[i]._id = NoId})

\* the caller's object literals fit the bounds
CanCreate(items, maxObjs) ==
    /\ Len(heap) + Len(items) <= maxObjs
    /\ uuid + NoIdCount(items) <= MaxUuid

\* the log of instance t has room for one more compensation
CanLog(t) == Len(txs[t].rollbackFns) < MaxLog

\* Transaction.get(id, .) fits the bound on instances
CanGet(id, maxTx) == map[id] /= Undef \/ Len(txs) < maxTx

\* the one collection and the one transaction id of Spec
Col1 == "colA"
TxId1 == 1

Next ==
    \/ \E items \in SeqsUpTo(SaveItem, MaxItems) :
          CanCreate(items, MaxObjs) /\ ColSave(Col1, items)
    \/ CanGet(TxId1, MaxTx) /\ TxGet(TxId1, Col1)
    \/ Len(txs) < MaxTx /\ TxNew(TxId1, Col1)
    \/ \E t \in Txs : Begin(t)
    \/ \E t \in Txs : End(t)
    \/ \E t \in Txs : TimerFire(t)
    \/ \E t \in Txs : Rollback(t)
    \/ \E t \in Txs, items \in SeqsUpTo(SaveItem, MaxItems) :
          CanCreate(items, MaxObjs) /\ CanLog(t) /\ TxSave(t, items)
    \/ \E t \in Txs, items \in SeqsUpTo(UpdateItem, MaxItems) :
          CanLog(t) /\ TxUpdate(t, items)
    \/ \E t \in Txs, cond \in Conds : CanLog(t) /\ TxDelete(t, cond)
    \/ \E t \in Txs, id \in AllIds : CanLog(t) /\ TxDeleteById(t, id)

Spec == Init /\ [][Next]_vars

\* Spec together with the reads through the transaction
NextRead ==
    \/ Next
    \/ \E t \in Txs, id \in AllIds : TxGetById(t, id)
    \/ \E t \in Txs, cond \in ReadConds : TxSearch(t, cond)
    \/ \E t \in Txs, cond \in ReadConds : TxSearchOne(t, cond)

SpecRead == Init /\ [][NextRead]_vars

\* one transaction over a backend whose calls can reject during rollback()
NextFail ==
    \/ \E items \in SeqsUpTo(SaveItem, MaxItems) :
          CanCreate(items, MaxObjs) /\ ColSave(Col1, items)
    \/ CanGet(TxId1, MaxTx) /\ TxGet(TxId1, Col1)
    \/ \E t \in Txs : Rollback(t)
    \/ \E t \in Txs, items \in SeqsUpTo(SaveItem, MaxItems) :
          CanCreate(items, MaxObjs) /\ CanLog(t) /\ TxSave(t, items)
    \/ \E t \in Txs, items \in SeqsUpTo(UpdateItem, MaxItems) :
          CanLog(t) /\ TxUpdate(t, items)
    \/ \E t \in Txs, cond \in Conds : CanLog(t) /\ TxDelete(t, cond)
    \/ \E t \in Txs, id \in AllIds : CanLog(t) /\ TxDeleteById(t, id)
    \/ \E t \in Txs :
          \E k \in 1..Len(txs[t].rollbackFns) :
             \E j \in 0..(Len(txs[t].rollbackFns[k].refs) - 1) :
                RollbackThrows(t, k, j)

SpecFail == Init /\ [][NextFail]_vars

\* the one item saved under SpecReg
RegItem == [_id |-> 1, name |-> 1]

NextReg ==
    \/ \E id \in TxIds, c \in Cols : CanGet(id, MaxTxReg) /\ TxGet(id, c)
    \/ \E id \in TxIds, c \in Cols : Len(txs) < MaxTxReg /\ TxNew(id, c)
    \/ \E t \in Txs : Begin(t)
    \/ \E t \in Txs : End(t)
    \/ \E t \in Txs : TimerFire(t)
    \/ \E t \in Txs : Rollback(t)
    \/ \E t \in Txs :
          CanCreate(<<RegItem>>, MaxObjsReg) /\ CanLog(t)
          /\ TxSave(t, <<RegItem>>)

SpecReg == Init /\ [][NextReg]_vars

(***************************************************************************)
(* SpecCol: one collection of one of the three backends, called directly.  *)
(***************************************************************************)
MetaFull == [has |-> TRUE, a |-> 1, b |-> 1]
MetaA == [has |-> TRUE, a |-> 2, b |-> Absent]

ColIds == Ids \cup {UuidBase + k : k \in 1..MaxUuidCol}

\* items handed to save: with a nested mapping under every kind of `_id`,
\* and without one under an `_id` of the caller
ColSaveItem ==
    {[_id |-> i, name |-> 1, meta |-> MetaFull] : i \in Ids \cup {NoId, UndefId}}
    \cup {[_id |-> i, name |-> 2, meta |-> NoMeta] : i \in Ids}

\* items handed to update: one names a key of the nested mapping, one names
\* the scalar field
ColUpdateItem ==
    {[_id |-> i, name |-> Absent, meta |-> MetaA] : i \in Ids}
    \cup {[_id |-> i, name |-> 2, meta |-> NoMeta] : i \in ColIds}

ColConds == {CondAll, CondName(1)}

FalsyCount(items) ==
    Cardinality({i \in 1..Len(items) : Falsy(items[i]._id)})

\* the items fit the bounds on objects and on calls of v4()
CanSave(items) ==
    /\ Len(heap) + Len(items) <= MaxObjsCol
    /\ uuid + FalsyCount(items) <= MaxUuidCol

InitCol ==
    /\ heap = InitState.heap
    /\ store \in {[c \in {b} |-> <<>>] : b \in Backends}
    /\ uuid = InitState.uuid
    /\ txs = InitState.txs
    /\ map = InitState.map
    /\ pending = InitState.pending
    /\ last = NoStep
    /\ prev = NoPrev
    /\ select = NoSelect
    /\ frames = NoFrames
    /\ age = <<>>

NextCol ==
    \/ \E b \in DOMAIN store, items \in SeqsUpTo(ColSaveItem, MaxItemsCol) :
          CanSave(items) /\ BSave(b, items)
    \/ \E b \in DOMAIN store, items \in SeqsUpTo(ColUpdateItem, MaxItemsCol) :
          BUpdate(b, items)
    \/ \E b \in DOMAIN store, cond \in ColConds : BDelete(b, cond)
    \/ \E b \in DOMAIN store, id \in ColIds \cup {UndefId} : BDeleteById(b, id)

SpecCol == InitCol /\ [][NextCol]_vars

(***************************************************************************)
(* SpecSel: the Select builder of src/src/select.ts.  _joinMap and          *)
(* _exposeMap are JavaScript Maps keyed by collection: sequences of         *)
(* [key, ref] entries in insertion order, `ref` naming the callback.  The   *)
(* callbacks are the caller's: two fetch callbacks and three projections    *)
(* stand for them.  An object is [_id, name], Absent marking a property it  *)
(* does not carry.                                                          *)
(***************************************************************************)
EmptyObject == [_id |-> Absent, name |-> Absent]

\* Object.assign(target, source): the own properties of source overwrite
Assign(target, source) ==
    [f \in DOMAIN target |->
        IF source[f] = Absent THEN target[f] ELSE source[f]]

\* the fetch callbacks handed to join(): each computes a value from the
\* source record
FetchCbs == {"author", "stamp"}

Fetch(cb, item) ==
    CASE cb = "author" -> [_id |-> Absent, name |-> 10 + item.name]
      [] cb = "stamp" -> [_id |-> 20, name |-> 30]

\* the projections: (value) => value of lines 16 and 50, and two of the
\* caller
Identity == "identity"

ProjFns == {Identity, "nameOnly", "nameAsId"}

Project(f, value) ==
    CASE f = Identity -> value
      [] f = "nameOnly" -> [_id |-> Absent, name |-> value.name]
      [] f = "nameAsId" -> [_id |-> value.name, name |-> Absent]

MapHas(es, key) == \E i \in 1..Len(es) : es[i].key = key

\* this._exposeMap.get(collection)?.(value): nothing when the collection has
\* no projection
Exposed(exposeMap, c, value) ==
    IF ~MapHas(exposeMap, c) THEN EmptyObject
    ELSE Project(MapGet(exposeMap, c), value)

Call(kind, c, item) == [kind |-> kind, col |-> c, id |-> item._id]

\* the loop of _handleFromValue over this._joinMap.entries()
RECURSIVE JoinLoop(_, _, _, _)
JoinLoop(joins, exposeMap, item, acc) ==
    IF Len(joins) = 0 THEN acc
    ELSE LET j == Head(joins)
             value == Fetch(j.ref, item)
             calls == <<Call("fetch", j.key, item)>>
                      \o IF ~MapHas(exposeMap, j.key) THEN <<>>
                         ELSE <<Call("expose", j.key, item)>>
         IN  JoinLoop(Tail(joins), exposeMap, item,
                 [result |-> Assign(acc.result,
                                    Exposed(exposeMap, j.key, value)),
                  calls |-> acc.calls \o calls])

HandleFromValue(sel, item) ==
    JoinLoop(sel.joinMap, sel.exposeMap, item,
        [result |-> Assign(EmptyObject,
                           Exposed(sel.exposeMap, sel.from, item)),
         calls |-> IF ~MapHas(sel.exposeMap, sel.from) THEN <<>>
                   ELSE <<Call("expose", sel.from, item)>>])

\* the loop of toArray over the records search() returned
RECURSIVE ToArrayLoop(_, _, _)
ToArrayLoop(sel, array, acc) ==
    IF Len(array) = 0 THEN acc
    ELSE LET r == HandleFromValue(sel, Head(array))
         IN  ToArrayLoop(sel, Tail(array),
                 [result |-> Append(acc.result, r.result),
                  calls |-> acc.calls \o r.calls])

\* the source is searched without the predicate
SelConditionIgnored(sel) == CondAll

\* the condition the source collection is searched with
SelCondition(sel) == sel.condition

\* join(collection, cb) keeps the callback and sets the projection of the
\* collection to (val) => val
JoinExpose(exposeMap, c) == MapSet(exposeMap, c, Identity)

\* what the caller did with the builder: asked[c] is the projection of the
\* latest expose(c, .) call ("" when there was none), joined the
\* collections in the order of their first join() call
SelStep(op, c, ran, ret) ==
    /\ last' = Step(op, Undef, c, 0, ran, ret, FALSE, {})
    /\ prev' = NoPrev
    /\ UNCHANGED <<heap, store, uuid, txs, map, pending, frames, age>>

\* Select.from(fromCollection): the constructor
SelFrom(c) ==
    /\ ~select.made
    /\ select' = [made |-> TRUE, from |-> c, condition |-> CondAll,
                  joinMap |-> <<>>,
                  exposeMap |-> MapSet(<<>>, c, Identity),
                  asked |-> [k \in Cols |-> ""], joined |-> <<>>]
    /\ SelStep("from", c, <<>>, <<>>)

SelWhere(cond) ==
    /\ select.made
    /\ select' = [select EXCEPT !.condition = cond]
    /\ SelStep("where", select.from, <<>>, <<>>)

SelJoin(c, cb) ==
    /\ select.made
    /\ select' = [select EXCEPT
                    !.joinMap = MapSet(@, c, cb),
                    !.exposeMap = JoinExpose(@, c),
                    !.joined = IF c \in Range(@) THEN @ ELSE Append(@, c)]
    /\ SelStep("join", c, <<>>, <<>>)

SelExpose(c, f) ==
    /\ select.made
    /\ select' = [select EXCEPT !.exposeMap = MapSet(@, c, f),
                                !.asked[c] = f]
    /\ SelStep("expose", c, <<>>, <<>>)

ToOne ==
    /\ select.made
    /\ LET fromValue == MemSearchOne(store[select.from], heap,
                                     SelCondition(select))
           r == HandleFromValue(select, heap[fromValue])
       IN  IF fromValue = Undef
           THEN SelStep("toOne", select.from, <<>>, <<>>)
           ELSE SelStep("toOne", select.from, r.calls, <<r.result>>)
    /\ UNCHANGED select

ToArray ==
    /\ select.made
    /\ LET array == MemSearch(store[select.from], heap,
                              SelCondition(select))
           r == ToArrayLoop(select, Deref(heap, array),
                            [result |-> <<>>, calls |-> <<>>])
       IN  SelStep("toArray", select.from, r.calls, r.result)
    /\ UNCHANGED select

\* the records of the source collection: one of the caller's id, one whose
\* id save() draws
SelSeeds ==
    {<<[_id |-> 1, name |-> 1]>>,
     <<[_id |-> 1, name |-> 1], [_id |-> NoId, name |-> 2]>>}

SelConds == {CondAll, CondName(1), CondName(2)}

InitSel ==
    \E items \in SelSeeds :
        LET r == MemSave(<<>>, items, 0, [i \in 1..Len(items) |-> i])
        IN  /\ heap = r.h
            /\ store = [c \in Cols |-> IF c = Col1 THEN r.es ELSE <<>>]
            /\ uuid = r.u
            /\ txs = InitState.txs
            /\ map = InitState.map
            /\ pending = InitState.pending
            /\ last = NoStep
            /\ prev = NoPrev
            /\ select = NoSelect
            /\ frames = NoFrames
            /\ age = <<>>

NextSel ==
    \/ \E c \in Cols : SelFrom(c)
    \/ \E cond \in SelConds : SelWhere(cond)
    \/ \E c \in Cols, cb \in FetchCbs : SelJoin(c, cb)
    \/ \E c \in Cols, f \in ProjFns : SelExpose(c, f)
    \/ ToOne
    \/ ToArray

SpecSel == InitSel /\ [][NextSel]_vars

(***************************************************************************)
(* SpecUndo: runs of save / delete / deleteById of one active transaction  *)
(* on a filled MemoryCollection that nothing else touches.                 *)
(***************************************************************************)
\* the records the collection holds before the transaction is made
UndoSeed == <<[_id |-> 1, name |-> 1], [_id |-> NoId, name |-> 2]>>

UndoIds == Ids \cup {UuidBase + k : k \in 1..MaxUuidUndo}

UndoConds == {CondAll} \cup {CondName(v) : v \in Vals}
                       \cup {CondIdIn({i}) : i \in UndoIds}

\* no item names an id the collection holds
AllNew(c, items) ==
    \A i \in 1..Len(items) :
        items[i]._id = NoId \/ MemGetById(store[c], items[i]._id) = Undef

\* instance t is active and its log has room
CanRun(t) == txs[t].begin /\ Len(txs[t].rollbackFns) < MaxLogUndo

InitUndo ==
    LET r == MemSave(<<>>, UndoSeed, 0, [i \in 1..Len(UndoSeed) |-> i])
    IN  /\ heap = r.h
        /\ store = [c \in Cols |-> IF c = Col1 THEN r.es ELSE <<>>]
        /\ uuid = r.u
        /\ txs = InitState.txs
        /\ map = InitState.map
        /\ pending = InitState.pending
        /\ last = NoStep
        /\ prev = NoPrev
        /\ select = NoSelect
        /\ frames = NoFrames
        /\ age = <<>>

\* Transaction.get makes the one instance there is, or hands it out again
OneInstance == map[TxId1] /= Undef \/ Len(txs) = 0

NextUndo ==
    \/ OneInstance /\ TxGet(TxId1, Col1)
    \/ \E t \in Txs : Begin(t)
    \/ \E t \in Txs : Rollback(t)
    \/ \E t \in Txs, items \in SeqsUpTo(SaveItem, MaxItems) :
          /\ CanRun(t)
          /\ AllNew(Col1, items)
          /\ Len(heap) + Len(items) <= MaxObjsUndo
          /\ uuid + NoIdCount(items) <= MaxUuidUndo
          /\ TxSave(t, items)
    \/ \E t \in Txs, cond \in UndoConds : CanRun(t) /\ TxDelete(t, cond)
    \/ \E t \in Txs, id \in UndoIds : CanRun(t) /\ TxDeleteById(t, id)

SpecUndo == InitUndo /\ [][NextUndo]_vars

(***************************************************************************)
(* SpecBind: one transaction that Transaction.get(id, collection) re-points *)
(* from one collection to the other.                                        *)
(***************************************************************************)
NextBind ==
    \/ \E c \in Cols : CanGet(TxId1, MaxTx) /\ TxGet(TxId1, c)
    \/ \E t \in Txs : Begin(t)
    \/ \E t \in Txs : Rollback(t)
    \/ \E t \in Txs, items \in SeqsUpTo(SaveItem, MaxItems) :
          CanCreate(items, MaxObjs) /\ CanLog(t) /\ TxSave(t, items)
    \/ \E t \in Txs, items \in SeqsUpTo(UpdateItem, MaxItems) :
          CanLog(t) /\ TxUpdate(t, items)
    \/ \E t \in Txs, cond \in Conds : CanLog(t) /\ TxDelete(t, cond)
    \/ \E t \in Txs, id \in AllIds : CanLog(t) /\ TxDeleteById(t, id)

SpecBind == Init /\ [][NextBind]_vars

(***************************************************************************)
(* SpecRace: rollback() await by await.  `await this._rollbackFns[i]()`    *)
(* calls the compensation, whose MemoryCollection method does its work     *)
(* during the call, and suspends rollback(); a frame [tx, i, n, ran] is    *)
(* the suspended call: the instance, the loop index, the length of the log *)
(* when the loop started and the indices run so far.  A method of the       *)
(* instance that the caller starts meanwhile runs to its end before the    *)
(* frame is resumed.                                                       *)
(***************************************************************************)
Frame(t) == CHOOSE f \in frames : f.tx = t

Suspended(t) == \E f \in frames : f.tx = t

\* the loop's i--
Older(i) == i - 1

RaceStep(op, t, n, ran) ==
    /\ last' = Step(op, t, txs[t].collection, n, ran, TRUE, FALSE, {})
    /\ prev' = NoPrev
    /\ UNCHANGED <<select, age>>

\* rollback() up to its first await: a log with a compensation in it
RollbackCall(t) ==
    LET fns == txs[t].rollbackFns
        n == RollbackStart(fns)
        st == RunComp(fns[n], [store |-> store, h |-> heap, u |-> uuid,
                               ran |-> <<>>])
    IN  /\ ~Suspended(t)
        /\ n >= 1
        /\ heap' = st.h
        /\ store' = st.store
        /\ uuid' = st.u
        /\ frames' = frames \cup {[tx |-> t, i |-> n, n |-> n, ran |-> <<n>>]}
        /\ RaceStep("rollback.call", t, n, <<n>>)
        /\ UNCHANGED <<txs, map, pending>>

\* rollback() from one await to the next, or to its end: `length = 0` and
\* end()
RollbackResume(t) ==
    /\ Suspended(t)
    /\ LET f == Frame(t)
           i == Older(f.i)
           fns == txs[t].rollbackFns
           st == RunComp(fns[i], [store |-> store, h |-> heap, u |-> uuid,
                                  ran |-> <<>>])
       IN  IF i >= 1
           THEN /\ heap' = st.h
                /\ store' = st.store
                /\ uuid' = st.u
                /\ frames' = (frames \ {f})
                       \cup {[f EXCEPT !.i = i, !.ran = Append(@, i)]}
                /\ RaceStep("resume", t, f.n, Append(f.ran, i))
                /\ UNCHANGED <<txs, map, pending>>
           ELSE /\ txs' = [txs EXCEPT ![t] = TxEnd(ClearLog(@))]
                /\ map' = MapWithout(map, txs[t].id)
                /\ pending' = [pending EXCEPT ![t] = ClearTimeout(txs[t], @)]
                /\ frames' = frames \ {f}
                /\ RaceStep("resume", t, f.n, f.ran)
                /\ UNCHANGED <<heap, store, uuid>>

CanLogRace(t) == Len(txs[t].rollbackFns) < MaxLogRace

NextRace ==
    \/ CanGet(TxId1, MaxTx) /\ TxGet(TxId1, Col1)
    \/ \E t \in Txs : ~Suspended(t) /\ Begin(t)
    \/ \E t \in Txs : RollbackCall(t)
    \/ \E t \in Txs : RollbackResume(t)
    \/ \E t \in Txs, items \in SeqsUpTo(SaveItem, MaxItems) :
          CanCreate(items, MaxObjs) /\ CanLogRace(t) /\ TxSave(t, items)
    \/ \E t \in Txs, cond \in Conds : CanLogRace(t) /\ TxDelete(t, cond)
    \/ \E t \in Txs, id \in AllIds : CanLogRace(t) /\ TxDeleteById(t, id)

SpecRace == Init /\ [][NextRace]_vars

(***************************************************************************)
(* SpecPair: two transactions, of the ids 1 and 2, wrap the same           *)
(* collection; the transaction of id k saves, updates and deletes the       *)
(* record of `_id` k and no other.                                          *)
(***************************************************************************)
\* the record id the instance t works on
OwnId(t) == txs[t].id

PairItem(k) == {[_id |-> k, name |-> v] : v \in Vals}

\* Transaction.get(id, .) makes at most one instance per id
CanGetOwn(id) == map[id] /= Undef \/ \A t \in Txs : txs[t].id /= id

NextPair ==
    \/ \E id \in TxIds : CanGetOwn(id) /\ TxGet(id, Col1)
    \/ \E t \in Txs : Rollback(t)
    \/ \E t \in Txs : \E item \in PairItem(OwnId(t)) :
          /\ Len(heap) < MaxObjsPair
          /\ CanLog(t)
          /\ TxSave(t, <<item>>)
    \/ \E t \in Txs : \E item \in PairItem(OwnId(t)) :
          CanLog(t) /\ TxUpdate(t, <<item>>)
    \/ \E t \in Txs : CanLog(t) /\ TxDelete(t, CondIdIn({OwnId(t)}))
    \/ \E t \in Txs : CanLog(t) /\ TxDeleteById(t, OwnId(t))

SpecPair == Init /\ [][NextPair]_vars

(***************************************************************************)
(* SpecTime: time.  A tick passes while no pending timer is due; a timer   *)
(* whose TimeoutTicks have passed fires before the next tick.  The methods *)
(* of the transaction are awaited, so the event loop gets to run a due     *)
(* timer between two of them (weak fairness of the firing), and time does  *)
(* not stand still (weak fairness of the tick).                            *)
(***************************************************************************)
Due(t) == t \in Txs /\ pending[t] > 0 /\ age[t] = TimeoutTicks

Tick ==
    /\ \E t \in Txs : pending[t] > 0
    /\ \A t \in Txs : ~Due(t)
    /\ age' = [t \in 1..Len(age) |->
                  IF pending[t] > 0 THEN age[t] + 1 ELSE age[t]]
    /\ last' = Step("tick", Undef, "", 0, <<>>, TRUE, FALSE, {})
    /\ prev' = NoPrev
    /\ UNCHANGED <<heap, store, uuid, txs, map, pending, select, frames>>

\* the callback of setTimeout(..., 30000) runs
TimerDue(t) == Due(t) /\ TimerFire(t)

TimeItem == [_id : Ids, name : Vals]

NextTime ==
    \/ CanGet(TxId1, MaxTx) /\ TxGet(TxId1, Col1)
    \/ \E t \in Txs : Begin(t)
    \/ \E t \in Txs, item \in TimeItem :
          CanCreate(<<item>>, MaxObjs) /\ CanLog(t) /\ TxSave(t, <<item>>)
    \/ \E t \in Txs, item \in TimeItem : CanLog(t) /\ TxUpdate(t, <<item>>)
    \/ \E t \in Txs, cond \in ReadConds : CanLog(t) /\ TxDelete(t, cond)
    \/ \E t \in Txs, id \in Ids : CanLog(t) /\ TxDeleteById(t, id)
    \/ \E t \in Txs, id \in Ids : TxGetById(t, id)
    \/ \E t \in Txs, cond \in ReadConds : TxSearch(t, cond)
    \/ \E t \in Txs, cond \in ReadConds : TxSearchOne(t, cond)
    \/ Tick
    \/ \E t \in Txs : TimerDue(t)

SpecTime ==
    /\ Init
    /\ [][NextTime]_vars
    /\ WF_vars(Tick)
    /\ \A t \in 1..MaxTx : WF_vars(TimerDue(t))

(***************************************************************************)
(* The claims.                                                             *)
(***************************************************************************)
\* the records of collection c now, each with its key
Cur(c) == ById(store[c], heap)

\* the record getById(id) returns from collection c now, as a set
GetNow(c, id) ==
    IF MemGetById(store[c], id) = Undef THEN {}
    ELSE {heap[MemGetById(store[c], id)]}

\* n, n-1, ..., 1
Countdown(n) == [i \in 1..n |-> n + 1 - i]

\* the step in `last` is a rollback() that directly follows method `op` of the
\* same instance, which was active with an empty log when `op` started
RolledBackAfter(op) ==
    /\ last.op = "rollback"
    /\ prev.op = op
    /\ prev.active
    /\ prev.logLen = 0
    /\ ~prev.threw

\* C1: after an active transaction's update(items...) on stored records
\* followed by rollback(), getById of every updated id returns the record as
\* it was immediately before the update.
C1_UpdateRollbackRestores ==
    RolledBackAfter("update") =>
        \A id \in prev.ids :
            GetNow(last.col, id) = {p[2] : p \in {q \in prev.byId : q[1] = id}}

\* C2: an active transaction's save(items...) followed immediately by
\* rollback() leaves the record set of the wrapped collection equal to its
\* record set before the save, whatever the items (no `_id`, an unused `_id`,
\* an `_id` already stored).
C2_SaveRollbackNetZero ==
    RolledBackAfter("save") =>
        RecordSet(store[last.col], heap) = {p[2] : p \in prev.byId}

\* the instance record of t before the step in `last`
PreTx(t) == last.pre.txs[t]

\* the records of collection c after the newest compensation in the log of
\* instance t has run on the current state: the first step of a rollback()
NewestUndone(t, c) ==
    LET fns == txs[t].rollbackFns
        st == RunComp(fns[Len(fns)],
                      [store |-> store, h |-> heap, u |-> uuid, ran |-> <<>>])
    IN  ById(st.store[c], st.h)

\* the step in `last` is a delete(condition) or deleteById(id) of an
\* instance that was active, and it removed something
DeletedByActive ==
    /\ last.op \in {"delete", "deleteById"}
    /\ PreTx(last.tx).begin
    /\ last.ids /= {}

\* C3: after an active transaction's delete(condition) or deleteById(id)
\* followed by rollback(), the collection holds exactly the records it held
\* before the delete: every removed record is back with its fields, the
\* others are unchanged. Whatever the log held before the delete, the
\* compensation of the delete, which rollback() runs first, puts the
\* collection back to what it was before the delete.
C3_DeleteRollbackRestores ==
    /\ (RolledBackAfter("delete") \/ RolledBackAfter("deleteById")) =>
           Cur(last.col) = prev.byId
    /\ DeletedByActive =>
           NewestUndone(last.tx, last.col)
               = ById(last.pre.store[last.col], last.pre.heap)

\* C3 witness: a delete(condition) removed two records and the rollback has run
C3_Witness ==
    /\ RolledBackAfter("delete")
    /\ Cardinality(prev.ids) = 2
    /\ last.ran = <<1>>
    /\ Cardinality(Cur(last.col)) = 2

\* C4: rollback() runs the logged compensations one after the other, newest
\* first: in the order n, n-1, ..., 1 for a log of n entries, each on the
\* state the one before it left.
C4_RollbackNewestFirst ==
    last.op = "rollback" =>
        last.ran = Countdown(Len(PreTx(last.tx).rollbackFns))

\* C4 witness: a rollback() of a log of two compensations has run
C4_Witness ==
    /\ last.op = "rollback"
    /\ Len(PreTx(last.tx).rollbackFns) = 2
    /\ last.ran = <<2, 1>>

\* C5: after rollback() the log of the instance is empty, the instance is
\* inactive, its id is not in the registry and no timer of it is pending; a
\* second rollback() right after the first runs nothing and leaves every
\* collection as it was.
C5_AfterRollback ==
    last.op = "rollback" =>
        /\ txs[last.tx].rollbackFns = <<>>
        /\ ~txs[last.tx].begin
        /\ map[txs[last.tx].id] = Undef
        /\ ~txs[last.tx].handler
        /\ pending[last.tx] = 0
        /\ prev.op = "rollback" =>
              /\ last.ran = <<>>
              /\ \A c \in Cols : Cur(c) = ById(last.pre.store[c], last.pre.heap)

\* C5 witness: a second rollback() directly after one that ran compensations
C5_Witness ==
    /\ last.op = "rollback"
    /\ prev.op = "rollback"
    /\ prev.logLen > 0
    /\ prev.active

\* the id argument of the deleteById in `last` was not stored when it started
DeletedMissingId ==
    /\ last.op = "deleteById"
    /\ MemGetById(last.pre.store[last.col], last.arg) = Undef

\* C6: Transaction.deleteById(id) of an id that is not in the wrapped
\* collection returns false, appends no compensation and leaves the collection
\* unchanged.
C6_DeleteMissingIdReturnsFalse ==
    DeletedMissingId =>
        /\ last.ret = FALSE
        /\ txs[last.tx].rollbackFns = PreTx(last.tx).rollbackFns
        /\ store = last.pre.store
        /\ heap = last.pre.heap

C8_OneActivePerId ==
    \A t1, t2 \in Txs :
        (t1 /= t2 /\ txs[t1].begin /\ txs[t2].begin) => txs[t1].id /= txs[t2].id

\* C9: when the timer of an active transaction fires, no compensation runs
\* and every collection is left exactly as it was; the instance becomes
\* inactive and its id leaves the registry.
C9_TimerOnlyEnds ==
    last.op = "timer" =>
        /\ last.ran = <<>>
        /\ store = last.pre.store
        /\ heap = last.pre.heap
        /\ ~txs[last.tx].begin
        /\ map[txs[last.tx].id] = Undef

\* C9 witness: the timer fired on an active, registered instance whose log
\* held a compensation of a mutation that is still applied
C9_Witness ==
    /\ last.op = "timer"
    /\ PreTx(last.tx).begin
    /\ last.pre.map[PreTx(last.tx).id] = last.tx
    /\ PreTx(last.tx).rollbackFns /= <<>>
    /\ store[last.col] /= <<>>

\* the step in `last` is a rollback() that directly follows the firing of the
\* timer of the same instance
RolledBackAfterTimer == last.op = "rollback" /\ prev.op = "timer"

DataUntouched ==
    /\ store = last.pre.store
    /\ heap = last.pre.heap
    /\ uuid = last.pre.uuid

\* the log of the instance of `last` is as before the step
LogUntouched == txs[last.tx].rollbackFns = PreTx(last.tx).rollbackFns

\* C11: end() marks the transaction inactive, removes the registry entry of
\* its id and cancels its pending timer (no timer of the instance is left to
\* fire), and leaves the compensation log and the collections unchanged.
C11_EndFrame ==
    last.op = "end" =>
        /\ ~txs[last.tx].begin
        /\ ~txs[last.tx].handler
        /\ map[txs[last.tx].id] = Undef
        /\ pending[last.tx] = 0
        /\ LogUntouched
        /\ txs[last.tx].collection = PreTx(last.tx).collection
        /\ DataUntouched

\* C11 witness: end() of an active, registered instance with a timer pending
\* and a compensation in its log
C11_Witness ==
    /\ last.op = "end"
    /\ PreTx(last.tx).begin
    /\ last.pre.pending[last.tx] = 1
    /\ last.pre.map[PreTx(last.tx).id] = last.tx
    /\ PreTx(last.tx).rollbackFns /= <<>>

\* C12: begin() on a transaction whose timer is armed changes nothing (active
\* flag, timer, log, registry); on an inactive transaction it marks it
\* active and arms exactly one timer, and leaves the log unchanged.  A
\* transaction is active exactly when its timer is armed, so the two cases
\* are all there are.
C12_BeginIdempotent ==
    /\ \A t \in Txs :
          /\ txs[t].begin = txs[t].handler
          /\ pending[t] = IF txs[t].handler THEN 1 ELSE 0
    /\ last.op = "begin" =>
          /\ DataUntouched
          /\ map = last.pre.map
          /\ LogUntouched
          /\ IF PreTx(last.tx).handler
             THEN txs = last.pre.txs /\ pending = last.pre.pending
             ELSE /\ txs[last.tx].begin
                  /\ txs[last.tx].handler
                  /\ pending[last.tx] = last.pre.pending[last.tx] + 1

\* C12 witness: begin() on an active instance with an armed timer and a
\* compensation in its log
C12_Witness ==
    /\ last.op = "begin"
    /\ PreTx(last.tx).handler
    /\ PreTx(last.tx).begin
    /\ last.pre.pending[last.tx] = 1
    /\ PreTx(last.tx).rollbackFns /= <<>>

Mutators == {"save", "update", "delete", "deleteById"}
Readers == {"getById", "search", "searchOne"}

\* the mutating call in `last` did to the collection what the same call on
\* the collection itself does
EffectApplied ==
    LET c == last.col
        pre == last.pre
    IN  CASE last.op = "save" ->
               /\ \A id \in last.ids : GetNow(c, id) /= {}
               /\ Len(heap) > Len(pre.heap) => last.ids /= {}
          [] last.op = "update" ->
               last.threw \/
               \E items \in SeqsUpTo(UpdateItem, MaxItems) :
                   /\ ItemIds(items) = last.ids
                   /\ MemUpdate(pre.store[c], pre.heap, items).es = store[c]
                   /\ MemUpdate(pre.store[c], pre.heap, items).h = heap
          [] last.op = "delete" ->
               /\ \A id \in last.ids :
                     /\ MemGetById(pre.store[c], id) /= Undef
                     /\ GetNow(c, id) = {}
               /\ Len(store[c]) = Len(pre.store[c]) - Cardinality(last.ids)
          [] last.op = "deleteById" -> GetNow(c, last.arg) = {}
          [] OTHER -> TRUE

\* C13: compensations are appended only while the transaction is active:
\* save, update, delete and deleteById on an inactive transaction still act
\* on the wrapped collection but leave the log (and the rest of the
\* instance) unchanged; getById, search and searchOne change neither the log
\* nor the collection, whatever the state of the transaction.
C13_LogsOnlyWhileActive ==
    /\ (last.op \in Mutators /\ ~PreTx(last.tx).begin) =>
          /\ txs = last.pre.txs
          /\ EffectApplied
    /\ last.op \in Readers =>
          /\ DataUntouched
          /\ txs = last.pre.txs
          /\ map = last.pre.map
          /\ pending = last.pre.pending

\* C13 witness: an update through an ended transaction, whose log still holds
\* a compensation, has changed a stored record
C13_Witness ==
    /\ last.op = "update"
    /\ ~PreTx(last.tx).begin
    /\ PreTx(last.tx).rollbackFns /= <<>>
    /\ ~last.threw
    /\ heap /= last.pre.heap

\* some item of the update in `last` named an `_id` that was not stored
UpdatedMissingId ==
    /\ last.op = "update"
    /\ \E id \in last.ids : MemGetById(last.pre.store[last.col], id) = Undef

\* C14: an update(items...) through a transaction fails exactly when one of
\* the items names an `_id` that is not stored; the error reaches the caller
\* and the log after the failed call is the log before it.
C14_FailedUpdateLogsNothing ==
    last.op = "update" =>
        /\ last.threw <=> UpdatedMissingId
        /\ last.threw => txs = last.pre.txs

\* C14 witness: an update of an active transaction failed on its second item
\* after its first item had changed a stored record
C14_Witness ==
    /\ UpdatedMissingId
    /\ last.threw
    /\ PreTx(last.tx).begin
    /\ heap /= last.pre.heap

\* the step in `last` is a rollback() that ended in the error of one of its
\* compensations
RollbackThrew == last.op = "rollback" /\ last.threw

\* n, n-1, ..., k
CountdownTo(n, k) == [i \in 1..(n + 1 - k) |-> n + 1 - i]

\* C15: when a compensation throws during rollback() the error reaches the
\* caller, the compensations older than the failing one are not run by that
\* call, and what the compensations before it did stays: the collection is
\* the one the newer compensations and the failed call left.  The log, the
\* active flag, the registry and the timer are as before the call.
C15_PartialRollback ==
    RollbackThrew =>
        LET fns == PreTx(last.tx).rollbackFns
            n == Len(fns)
            k == last.arg
            s1 == RollbackLoop(n - k, SubSeq(fns, k + 1, n),
                               [store |-> last.pre.store, h |-> last.pre.heap,
                                u |-> last.pre.uuid, ran |-> <<>>])
        IN  /\ last.ran = CountdownTo(n, k)
            /\ \E j \in 0..(Len(fns[k].refs) - 1) :
                  LET s2 == RunCompPartial(fns[k], s1, j)
                  IN  store = s2.store /\ heap = s2.h /\ uuid = s2.u
            /\ txs = last.pre.txs
            /\ map = last.pre.map
            /\ pending = last.pre.pending

\* C15 witness: the older of two compensations threw after the newer one had
\* changed the collection
C15_Witness ==
    /\ RollbackThrew
    /\ last.ran = <<2, 1>>
    /\ last.arg = 1
    /\ store /= last.pre.store

(***************************************************************************)
(* Claims about the collections themselves (SpecCol).                      *)
(***************************************************************************)
\* the ids a caller can ask a collection for
AskIds == ColIds \cup {UndefId}

\* what getById(id) of the collection of `last` answers now, and what it
\* answered before the step in `last`
NowById(id) == BackendGetById(last.col, store[last.col], heap, id)
BeforeById(id) ==
    BackendGetById(last.col, last.pre.store[last.col], last.pre.heap, id)

\* the step in `last` is a call `op` on a collection that returned normally
Called(op) == last.op = op /\ last.tx = Undef /\ last.ret.err = ""

\* item i is the last item of the call that was saved under its `_id`
LastOfItsId(result, i) ==
    \A j \in (i + 1)..Len(result) : result[j]._id /= result[i]._id

\* C16: save(items...) returns its items in input order, every returned
\* item with an `_id` (a fresh one, not stored before, when the input carried
\* none; the given one otherwise); getById of that `_id` returns exactly the
\* saved item (the previous record of that id is replaced as a whole), and
\* the records of other ids are unchanged.
C16_SaveUpserts ==
    Called("save") =>
        LET items == last.arg
            result == last.ret.result
        IN  /\ Len(result) = Len(items)
            /\ \A i \in 1..Len(items) :
                  /\ result[i].name = items[i].name
                  /\ result[i].meta = items[i].meta
                  /\ ~Falsy(result[i]._id)
                  /\ IF Falsy(items[i]._id)
                     THEN BeforeById(result[i]._id) = <<>>
                     ELSE result[i]._id = items[i]._id
                  /\ LastOfItsId(result, i) =>
                        NowById(result[i]._id) = <<result[i]>>
            /\ \A id \in AskIds :
                  (\A i \in 1..Len(result) : IdText(result[i]._id) /= id)
                      => NowById(id) = BeforeById(id)

\* C17: deleteById(id) returns true exactly when a record with that id was
\* stored before the call; afterwards no record with that id is stored and
\* the other records are unchanged; a second deleteById(id) returns false
\* and changes nothing.
C17_DeleteByIdReturnsExisted ==
    Called("deleteById") =>
        LET id == last.arg
            again == BackendDeleteById(last.col, store[last.col], heap, uuid, id)
        IN  /\ last.ret.ok <=> BeforeById(id) /= <<>>
            /\ NowById(id) = <<>>
            /\ \A other \in AskIds \ {id} : NowById(other) = BeforeById(other)
            /\ ~again.ok
            /\ again.es = store[last.col]

\* C17 witness: deleteById on the SQL backend removed one of two records and
\* returned true
C17_Witness ==
    /\ Called("deleteById")
    /\ last.col = "sql"
    /\ last.ret.ok
    /\ Len(last.pre.store["sql"]) = 2
    /\ Len(store["sql"]) = 1

\* C18: in every reachable state of a collection no two stored records share
\* an `_id`, and getById(id) returns either nothing or a record whose `_id`
\* is id.
C18_IdsUnique ==
    \A b \in DOMAIN store :
        LET all == BackendSearchAll(b, store[b], heap)
        IN  /\ \A i, j \in 1..Len(all) : all[i]._id = all[j]._id => i = j
            /\ \A id \in AskIds :
                  LET r == BackendGetById(b, store[b], heap, id)
                  IN  r = <<>> \/ r[1]._id = id

\* the items of the update in `last` whose `_id` was not stored
MissingItems ==
    {i \in 1..Len(last.arg) : BeforeById(last.arg[i]._id) = <<>>}

\* C19: in every backend update(...items) with an item whose `_id` is not
\* stored fails with the 'not found' error, and no record is stored under
\* that `_id` afterwards.
C19_UpdateMissingNotFound ==
    (last.op = "update" /\ last.tx = Undef /\ MissingItems /= {}) =>
        /\ last.ret.err = "Not found item"
        /\ \A i \in MissingItems : NowById(last.arg[i]._id) = <<>>

\* the record the contract of update asks for: scalar fields the item names
\* overwritten, the nested mapping merged key by key, the rest kept
Merged(rec, item) ==
    [_id |-> rec._id,
     name |-> IF item.name = Absent THEN rec.name ELSE item.name,
     meta |-> IF ~item.meta.has THEN rec.meta
              ELSE [has |-> TRUE,
                    a |-> IF item.meta.a = Absent THEN rec.meta.a
                          ELSE item.meta.a,
                    b |-> IF item.meta.b = Absent THEN rec.meta.b
                          ELSE item.meta.b]]

RECURSIVE MergedAll(_, _)
MergedAll(rec, items) ==
    IF Len(items) = 0 THEN rec
    ELSE MergedAll(IF Head(items)._id = rec._id THEN Merged(rec, Head(items))
                   ELSE rec,
                   Tail(items))

\* C20: in every backend update(items...) on stored records overwrites the
\* scalar fields the items name, merges nested mapping fields key by key
\* (the keys of the stored mapping the item does not name are kept), keeps
\* the fields the items do not name, and leaves the other records unchanged.
C20_UpdateDeepMerges ==
    Called("update") =>
        \A id \in AskIds :
            NowById(id) = IF BeforeById(id) = <<>> THEN <<>>
                          ELSE <<MergedAll(BeforeById(id)[1], last.arg)>>

(***************************************************************************)
(* Claims about the Select builder (SpecSel).                              *)
(***************************************************************************)
Ran(op) == select.made /\ last.op = op

\* the source records the predicate of the builder matches, in the order
\* the source collection keeps them
Hits ==
    LET es == store[select.from]
        hit == SelectSeq(es, LAMBDA e : Matches(heap[e.ref], select.condition))
    IN  [i \in 1..Len(hit) |-> heap[hit[i].ref]]

\* C21: when no record of the source collection matches the predicate (an
\* empty source included), toOne() returns absent, toArray() returns the
\* empty sequence, and no fetch callback and no projection is called.
C21_NoMatchNoCallbacks ==
    ((Ran("toOne") \/ Ran("toArray")) /\ Len(Hits) = 0)
        => (last.ret = <<>> /\ last.ran = <<>>)

C21_Witness ==
    /\ Ran("toArray")
    /\ Len(Hits) = 0
    /\ Len(store[select.from]) > 0
    /\ Len(select.joinMap) > 0

\* what collection c contributes to the result built for a source record
Contribution(c, item) ==
    IF c = 0
    THEN Project(MapGet(select.exposeMap, select.from), item)
    ELSE Project(MapGet(select.exposeMap, select.joined[c]),
                 Fetch(MapGet(select.joinMap, select.joined[c]), item))

\* the value of property f: that of the last contribution that carries it
LastWins(item, f) ==
    LET carry == {c \in 0..Len(select.joined) :
                     Contribution(c, item)[f] /= Absent}
    IN  IF carry = {} THEN Absent
        ELSE Contribution(CHOOSE c \in carry : \A d \in carry : d <= c,
                          item)[f]

\* the callbacks one source record takes, in order: the projection of the
\* source, then fetch and projection of every joined collection
CallsFor(item) ==
    [i \in 1..(1 + 2 * Len(select.joined)) |->
        IF i = 1 THEN Call("expose", select.from, item)
        ELSE IF i % 2 = 0 THEN Call("fetch", select.joined[i \div 2], item)
        ELSE Call("expose", select.joined[i \div 2], item)]

BuiltFrom(items) ==
    LET n == 1 + 2 * Len(select.joined)
    IN  /\ Len(last.ret) = Len(items)
        /\ \A k \in 1..Len(items) :
              \A f \in {"_id", "name"} :
                  last.ret[k][f] = LastWins(items[k], f)
        /\ last.ran = [i \in 1..(n * Len(items)) |->
                          CallsFor(items[((i - 1) \div n) + 1])[((i - 1) % n) + 1]]

\* C22: every result object is built in a fixed order: the projection of
\* the source record first, then the projected value of every joined
\* collection in the order of the first join() call of each, one fetch
\* after the other; of two contributions with the same key the later one
\* gives the value.
C22_BuildOrder ==
    /\ Ran("toArray") => BuiltFrom(Hits)
    /\ (Ran("toOne") /\ Len(Hits) > 0) => BuiltFrom(<<Hits[1]>>)

\* two collections joined, two records, and a key that two contributions
\* carry
C22_Witness ==
    /\ Ran("toArray")
    /\ Len(Hits) = 2
    /\ Len(select.joined) = 2
    /\ select.joinMap[1].ref = "stamp"
    /\ select.joinMap[2].ref = "author"
    /\ MapGet(select.exposeMap, select.joined[2]) = Identity
    /\ last.ret[1].name = 10 + Hits[1].name

\* C23: the projection applied to a collection is the one of the latest
\* expose() call for it, and (value) => value only when expose() was never
\* called for it, in whatever order join() and expose() were called.
C23_LatestExposeApplies ==
    select.made =>
        \A c \in Cols :
            MapHas(select.exposeMap, c) =>
                MapGet(select.exposeMap, c) =
                    IF select.asked[c] = "" THEN Identity
                    ELSE select.asked[c]

(***************************************************************************)
(* Claims about runs of operations of one transaction (SpecUndo).          *)
(***************************************************************************)
\* the records of the collection before the transaction was made
SeedRecords ==
    LET r == MemSave(<<>>, UndoSeed, 0, [i \in 1..Len(UndoSeed) |-> i])
    IN  ById(r.es, r.h)

\* C24: for one active transaction on a MemoryCollection that nothing else
\* mutates, rollback() after any run of save (of ids the collection does not
\* hold, or of items without `_id`), delete(condition) and deleteById(id)
\* leaves the record set the collection had when the first operation of the
\* run started.  Every run starts from the seed records: the first one by
\* construction, each later one because the rollback before it left them.
C24_RunRollbackRestores ==
    last.op = "rollback" => Cur(Col1) = SeedRecords

\* a rollback() of three compensations, re-saving and deleting ones among
\* them, from a record set that was not the one at the start
C24_Witness ==
    /\ last.op = "rollback"
    /\ Len(last.ran) = 3
    /\ {PreTx(last.tx).rollbackFns[i].kind : i \in 1..3} = {"save", "delete"}
    /\ ById(last.pre.store[Col1], last.pre.heap) /= SeedRecords
    /\ Len(last.pre.heap) = MaxObjsUndo

(***************************************************************************)
(* Claims about a re-pointed transaction (SpecBind).                       *)
(***************************************************************************)
\* the compensations of a log that are bound to collection c, in log order
BoundTo(fns, c) == SelectSeq(fns, LAMBDA fn : fn.col = c)

\* collection c after the compensations bound to it have run, newest first,
\* on the state the step in `last` started from
UndoneOn(c) ==
    LET fns == BoundTo(PreTx(last.tx).rollbackFns, c)
        st == RollbackLoop(Len(fns), fns,
                           [store |-> last.pre.store, h |-> last.pre.heap,
                            u |-> last.pre.uuid, ran |-> <<>>])
    IN  ById(st.store[c], st.h)

\* C25: a compensation is bound to the collection the transaction wrapped
\* when its operation ran: the compensation a mutating method appends names
\* the collection the method worked on, and rollback() changes each
\* collection by the compensations bound to it and by nothing else, whatever
\* collection the transaction wraps by then.
C25_CompensationBoundToCollection ==
    /\ (last.op \in Mutators
        /\ Len(txs[last.tx].rollbackFns) > Len(PreTx(last.tx).rollbackFns))
            => /\ last.col = PreTx(last.tx).collection
               /\ txs[last.tx].rollbackFns[Len(txs[last.tx].rollbackFns)].col
                     = last.col
    /\ last.op = "rollback" => \A c \in Cols : Cur(c) = UndoneOn(c)

\* rollback() of a transaction that wraps colB, with a log of an operation
\* on colA and a later one on colB: both collections change, each by its own
\* compensation
C25_Witness ==
    /\ last.op = "rollback"
    /\ PreTx(last.tx).collection = "colB"
    /\ Len(PreTx(last.tx).rollbackFns) = 2
    /\ PreTx(last.tx).rollbackFns[1].col = "colA"
    /\ PreTx(last.tx).rollbackFns[2].col = "colB"
    /\ Cur("colA") /= ById(last.pre.store["colA"], last.pre.heap)
    /\ Cur("colB") /= ById(last.pre.store["colB"], last.pre.heap)

(***************************************************************************)
(* Claims about the lifecycle of an instance and the registry.             *)
(***************************************************************************)
\* C26: in every state an instance can be in once its constructor has
\* returned, it is active exactly when one of its timers is pending, and it
\* never has more than one timer pending, whatever begin(), end(),
\* rollback(), timer firings and collection operations came before.
C26_ActiveIffTimerPending ==
    \A t \in Txs :
        /\ pending[t] \in {0, 1}
        /\ txs[t].begin <=> pending[t] = 1

\* begin() on an instance that had ended with a compensation in its log: it
\* is active again, with one timer
C26_Witness ==
    /\ last.op = "begin"
    /\ ~PreTx(last.tx).begin
    /\ last.pre.pending[last.tx] = 0
    /\ txs[last.tx].rollbackFns /= <<>>
    /\ txs[last.tx].begin
    /\ pending[last.tx] = 1

\* C27: every transaction the registry holds is active, with its timer
\* pending, and is held under its own id, whatever Transaction.get, new
\* Transaction, begin(), end(), rollback() and timer firings came before, on
\* instances that may share an id.
C27_RegisteredAreActive ==
    \A id \in TxIds :
        map[id] /= Undef =>
            /\ map[id] \in Txs
            /\ txs[map[id]].id = id
            /\ txs[map[id]].begin
            /\ pending[map[id]] = 1

\* the registry holds an instance while another instance of the same id,
\* made by the constructor, is active too
C27_Witness ==
    \E t1, t2 \in Txs :
        /\ t1 /= t2
        /\ txs[t1].id = txs[t2].id
        /\ map[txs[t1].id] = t1
        /\ txs[t2].begin

(***************************************************************************)
(* Claims about a rollback() that is not awaited (SpecRace).               *)
(***************************************************************************)
\* the step in `last` brought a suspended rollback() to its end
RollbackEnded == last.op = "resume" /\ ~Suspended(last.tx)

\* the step in `last` is a mutating method that ran while rollback() of its
\* instance was suspended and appended a compensation
AppendedMeanwhile ==
    /\ last.op \in Mutators
    /\ Suspended(last.tx)
    /\ Len(txs[last.tx].rollbackFns) > Len(PreTx(last.tx).rollbackFns)

\* C28: when a mutating method of a transaction completes while rollback()
\* of the same transaction is suspended at an awaited compensation, the
\* compensation it appends lies above the index the loop started at and is
\* never run by that rollback(), which runs the compensations it found,
\* newest first, and no other; the end of rollback() empties the log, the
\* appended compensation with it, and leaves the collections as they are:
\* the mutation stays and nothing is left that could undo it.
C28_LateCompensationDropped ==
    /\ AppendedMeanwhile =>
          Len(txs[last.tx].rollbackFns) > Frame(last.tx).n
    /\ RollbackEnded =>
          /\ last.ran = Countdown(last.arg)
          /\ txs[last.tx].rollbackFns = <<>>
          /\ ~txs[last.tx].begin
          /\ DataUntouched

\* a rollback() came to its end with a compensation in the log that a save
\* had appended while it was suspended; the saved record is still stored
C28_Witness ==
    /\ RollbackEnded
    /\ Len(PreTx(last.tx).rollbackFns) > last.arg
    /\ PreTx(last.tx).rollbackFns[last.arg + 1].kind = "delete"
    /\ \E x \in Range(PreTx(last.tx).rollbackFns[last.arg + 1].refs) :
          GetNow(last.col, heap[x]._id) = {heap[x]}

(***************************************************************************)
(* Claims about two transactions on one collection (SpecPair).             *)
(***************************************************************************)
\* the record collection c held under id before the step in `last`, as a set
GetBefore(c, id) ==
    IF MemGetById(last.pre.store[c], id) = Undef THEN {}
    ELSE {last.pre.heap[MemGetById(last.pre.store[c], id)]}

\* C29: two active transactions wrap the same collection and work on
\* disjoint record ids; however their operations interleave, rollback() of
\* one changes no record but those of its own ids: every record of another
\* id is stored after the rollback exactly as it was before, and the other
\* transaction (its log, its flag) is as it was.
C29_RollbackKeepsToOwnIds ==
    last.op = "rollback" =>
        /\ \A id \in TxIds \ {OwnId(last.tx)} :
              GetNow(last.col, id) = GetBefore(last.col, id)
        /\ \A t \in Txs \ {last.tx} : txs[t] = last.pre.txs[t]

\* rollback() of a transaction that changes the record of its own id, while
\* the other transaction is active with a compensation in its log and its
\* record is stored
C29_Witness ==
    /\ last.op = "rollback"
    /\ GetNow(last.col, OwnId(last.tx)) /= GetBefore(last.col, OwnId(last.tx))
    /\ \E t \in Txs \ {last.tx} :
          /\ txs[t].begin
          /\ txs[t].rollbackFns /= <<>>
          /\ GetNow(last.col, OwnId(t)) /= {}

(***************************************************************************)
(* Claims about an update() that fails part way (Spec).                    *)
(***************************************************************************)
\* the step in `last` is an update() of a transaction that ended in the
\* "not found" error; last.arg holds the items it got to, the last of them
\* the one whose `_id` is not stored
FailedUpdate == last.op = "update" /\ last.threw

\* record `rec`, stored under `id`, after the items that name `id` have
\* been merged into it one after the other
RECURSIVE MergeInto(_, _, _)
MergeInto(rec, id, items) ==
    IF Len(items) = 0 THEN rec
    ELSE MergeInto(IF Head(items)._id = id THEN DeepAssign(rec, Head(items))
                   ELSE rec,
                   id, Tail(items))

\* the objects after `items` have been merged into the records collection c
\* held before the step in `last`
PrefixMerged(c, items) ==
    LET es == last.pre.store[c]
    IN  [r \in 1..Len(last.pre.heap) |->
            IF \E i \in 1..Len(es) : es[i].ref = r
            THEN MergeInto(last.pre.heap[r],
                           es[CHOOSE i \in 1..Len(es) : es[i].ref = r].key,
                           items)
            ELSE last.pre.heap[r]]

\* C30: update(...items) works through the items from the left and is not
\* atomic: when the k-th item names an `_id` that is not stored, the items
\* before it are merged and stay merged, the k-th and the later ones change
\* nothing, and Transaction.update leaves the method before it logs a
\* compensation; a rollback() that follows runs the compensations the log
\* held before the update, none for the merged items, and changes no field
\* of any record: with an empty log it changes nothing at all.
C30_UpdateNotAtomic ==
    /\ FailedUpdate =>
          LET k == Len(last.arg)
          IN  /\ MemGetById(last.pre.store[last.col], last.arg[k]._id) = Undef
              /\ heap = PrefixMerged(last.col, SubSeq(last.arg, 1, k - 1))
              /\ store = last.pre.store
              /\ uuid = last.pre.uuid
              /\ txs = last.pre.txs
    /\ (last.op = "rollback" /\ prev.op = "update" /\ prev.threw) =>
          /\ last.ran = Countdown(prev.logLen)
          /\ heap = last.pre.heap
          /\ prev.logLen = 0 => DataUntouched

\* rollback() right after a failed update() of an active transaction with
\* an empty log: a record is stored with the value the update merged into
\* it, not the one it had before the update
C30_Witness ==
    /\ last.op = "rollback"
    /\ prev.op = "update"
    /\ prev.threw
    /\ prev.active
    /\ prev.logLen = 0
    /\ Cur(last.col) /= prev.byId

(***************************************************************************)
(* Claims about a rollback() that is tried again (SpecFail).               *)
(***************************************************************************)
\* the step in `last` is a rollback() that directly follows a rollback() of
\* the same instance in which a compensation threw
RetriedRollback == last.op = "rollback" /\ prev.op = "rollback" /\ prev.threw

\* C32: when a compensation throws during rollback(), the log keeps all its
\* entries, those of the compensations that ran included, and the
\* transaction stays active, registered and with its timer pending; a
\* rollback() tried again starts from the newest compensation once more.
C32_FailedRollbackKeepsLog ==
    /\ RollbackThrew =>
          /\ txs[last.tx].rollbackFns = PreTx(last.tx).rollbackFns
          /\ txs[last.tx].begin = PreTx(last.tx).begin
          /\ txs[last.tx].handler = PreTx(last.tx).handler
          /\ pending[last.tx] = last.pre.pending[last.tx]
          /\ map = last.pre.map
          /\ PreTx(last.tx).begin =>
                (txs[last.tx].begin /\ pending[last.tx] = 1)
    /\ RetriedRollback =>
          /\ Len(PreTx(last.tx).rollbackFns) = prev.logLen
          /\ last.ran /= <<>>
          /\ last.ran[1] = prev.logLen
          /\ ~last.threw => last.ran = Countdown(prev.logLen)

\* a rollback() of a registered transaction with two compensations went
\* through after one in which a compensation had thrown
C32_Witness ==
    /\ RetriedRollback
    /\ ~last.threw
    /\ prev.active
    /\ prev.logLen = 2
    /\ last.pre.map[PreTx(last.tx).id] = last.tx
    /\ last.ran = <<2, 1>>

(***************************************************************************)
(* Claims about the timer of a transaction in use (SpecTime).              *)
(***************************************************************************)
Active(t) == t \in Txs /\ txs[t].begin

\* the methods that use a transaction without ending it
UseOps == Mutators \cup Readers \cup {"get"}

\* the step is a method of UseOps on an instance that exists, and it leaves
\* the timer of the instance as it is: as many pending, the same handler,
\* as much of its time gone
UseKeepsTimer ==
    (last'.op \in UseOps /\ last'.tx \in Txs) =>
        /\ pending'[last'.tx] = pending[last'.tx]
        /\ txs'[last'.tx].handler = txs[last'.tx].handler
        /\ age'[last'.tx] = age[last'.tx]

\* C31: the timer is armed by begin() alone, once, and no operation arms it
\* again or puts it off: save, update, delete, deleteById, getById, search,
\* searchOne and Transaction.get leave the pending timer and the time it has
\* left as they are.  So an active transaction on which neither end() nor
\* rollback() is called is ended by its timer in the end, however much it
\* is used meanwhile.
C31_TimerEndsTransactionInUse ==
    /\ [][UseKeepsTimer]_vars
    /\ \A t \in 1..MaxTx : Active(t) ~> ~Active(t)

\* the timer fires on an active transaction when its time is up, with two
\* compensations logged since it was armed
C31_Witness ==
    /\ last.op = "timer"
    /\ PreTx(last.tx).begin
    /\ age[last.tx] = TimeoutTicks
    /\ Len(txs[last.tx].rollbackFns) = MaxLog
    /\ ~txs[last.tx].begin

====
